---- MODULE Spec2Model ----
(***************************************************************************)
(* Transport layer of the Extensiv Order Manager n8n node                  *)
(* (src/nodes/ExtensivOrderManager/transport/index.ts): the Request        *)
(* Dispatcher extensivApiRequest, the Token Refresher refreshAccessToken,  *)
(* the Pager extensivApiRequestAllItems and the backoff wrapper            *)
(* extensivApiRequestWithRetry, run against a remote API whose answers are *)
(* chosen nondeterministically.  Every await on the network is a           *)
(* suspension point and therefore a step boundary of the model.            *)
(***************************************************************************)
EXTENDS Integers, Sequences, FiniteSets, TLC

(* ---------------- program constants ---------------- *)
pageSize == 100
DefaultMaxRetries == 5
InitialWaitTime == 1000
MaxWaitTime == 120000

(* ---------------- bounds of the model ---------------- *)
\* the Pager is not followed beyond this page number
MaxPages == 4
\* largest maxRetries argument handed to the wrapper
MaxRetriesArg == 6

(* ---------------- JavaScript values ---------------- *)
\* an optional argument / property: absent (undefined) or present
None == [some |-> FALSE]
Some(v) == [some |-> TRUE, val |-> v]

EmptyObject == [k \in {} |-> TRUE]

\* tagged JSON values as the remote API returns them
JArray(s) == [t |-> "array", items |-> s]
JObject(o) == [t |-> "object", props |-> o]
JString(s) == [t |-> "string", str |-> s]
JNumber(n) == [t |-> "number", num |-> n]
JBool(b) == [t |-> "boolean", bool |-> b]
\* the string made of two or more parts with a comma between neighbours
JCsv(parts) == [t |-> "csv", parts |-> parts]
JNull == [t |-> "null"]
JUndefined == [t |-> "undefined"]

\* JavaScript truthiness, as used by the || chain of the Pager
Truthy(x) ==
  CASE x.t = "array" -> TRUE
    [] x.t = "object" -> TRUE
    [] x.t = "string" -> x.str # ""
    [] x.t = "number" -> x.num # 0
    [] x.t = "boolean" -> x.bool
    [] x.t = "csv" -> TRUE
    [] OTHER -> FALSE

\* property read x[k]: undefined on anything that has no such own property
GetProp(x, k) ==
  IF x.t = "object" /\ k \in DOMAIN x.props THEN x.props[k] ELSE JUndefined

IsArray(x) == x.t = "array"

(* ---------------- errors ---------------- *)
\* what this.helpers.request rejects with: an HTTP error carries statusCode,
\* a network failure does not
HttpErrorStatuses == {400, 401, 429, 500}
RawErrors ==
  {[statusCode |-> s, message |-> "http error"] : s \in HttpErrorStatuses}
    \cup {[message |-> "network error"]}

\* errorObj.statusCode === s
HasStatusCode(err, s) == "statusCode" \in DOMAIN err /\ err.statusCode = s

AuthFailedMessage == "Failed to refresh access token. Please re-authenticate."
RefreshFailedMessage == "Failed to refresh access token"
RateLimitMessage == "Rate limit exceeded. Please try again later."

\* new NodeApiError(node, errorResponse, {message}): the error response is kept
\* as the cause; the object has a message and no statusCode property
NodeApiError(errorResponse, message) ==
  [name |-> "NodeApiError", message |-> message, cause |-> errorResponse]

\* new NodeApiError(node, errorResponse): the message is taken from the response
NodeApiErrorPlain(errorResponse) ==
  [name |-> "NodeApiError", message |-> errorResponse.message,
   cause |-> errorResponse]

\* variant: the inner catch passes the caught error on without its own message
AuthFailureUnwrapped(cause) == NodeApiErrorPlain(cause)

\* the three errors extensivApiRequest surfaces
AuthFailure(cause) == NodeApiError(cause, AuthFailedMessage)
RateLimitFailure(cause) == NodeApiError(cause, RateLimitMessage)
ApiFailure(cause) == NodeApiErrorPlain(cause)
\* variant: refreshAccessToken lets the caught error through as it is
RefreshFailureRethrown(cause) == cause

\* the error refreshAccessToken surfaces
RefreshFailure(cause) == NodeApiError(cause, RefreshFailedMessage)

(* ---------------- base URLs ---------------- *)
\* variant: the demo host only for "demo", the production host otherwise
getBaseUrlDemoOnly(environment) ==
  IF environment = "demo" THEN "https://api.demo.skubana.com"
  ELSE "https://api.skubana.com"

getBaseUrl(environment) ==
  IF environment = "production" THEN "https://api.skubana.com"
  ELSE "https://api.demo.skubana.com"

getAppBaseUrl(environment) ==
  IF environment = "production" THEN "https://app.skubana.com"
  ELSE "https://demo.skubana.com"

(* ---------------- request construction ---------------- *)
Bearer(token) == <<"Bearer", token>>

\* options of refreshAccessToken
RefreshOptions(creds) ==
  [method |-> "POST",
   uri |-> <<getAppBaseUrl(creds.environment), "/oauth/token">>,
   headers |-> [Authorization |-> <<"Basic", creds.clientId, creds.clientSecret>>,
                ContentType |-> "application/x-www-form-urlencoded"],
   form |-> [grant_type |-> "refresh_token", refresh_token |-> creds.refreshToken],
   json |-> TRUE]

\* variant: body !== undefined
NonEmptyArgPresent(arg) == arg.some

\* body && Object.keys(body).length > 0
NonEmptyArg(arg) == arg.some /\ DOMAIN arg.val # {}

\* options of extensivApiRequest before the first send
BuildOptions(method, endpoint, body, query, uri, creds) ==
  LET base == [method |-> method,
               uri |-> IF uri.some /\ uri.val # ""
                       THEN <<uri.val>>
                       ELSE <<getBaseUrl(creds.environment), "/service/v1.2", endpoint>>,
               headers |-> [Authorization |-> Bearer(creds.accessToken),
                            ContentType |-> "application/json",
                            Accept |-> "application/json"],
               json |-> TRUE]
      withBody == IF NonEmptyArg(body) THEN [body |-> body.val] @@ base ELSE base
  IN IF NonEmptyArg(query) THEN [qs |-> query.val] @@ withBody ELSE withBody

\* variant: the header of the re-issued request is left as it was
WithOldToken(options, newToken) == options

\* options.headers = {...options.headers, Authorization: `Bearer ${newToken}`}
WithNewToken(options, newToken) ==
  [options EXCEPT !.headers = [@ EXCEPT !.Authorization = Bearer(newToken)]]

(* ---------------- the remote API ---------------- *)
\* page sizes the remote API may answer with: empty, short, full, oversized
PageSizes == {0, 37, pageSize, pageSize + 1}

\* the items of page p when the API returns n of them
MockPage(p, n) == [i \in 1..n |-> <<p, i>>]

RequestedPage(opts) ==
  IF "qs" \in DOMAIN opts /\ "page" \in DOMAIN opts.qs THEN opts.qs.page ELSE 1

\* bodies of a 2xx answer to a data request: a bare array, an object holding
\* the array under "orders" or under "data", an object without any array, and
\* objects holding something under both "orders" and "data"
DataResponses(opts) ==
  LET p == RequestedPage(opts)
  IN {JArray(MockPage(p, n)) : n \in PageSizes}
       \cup {JObject([orders |-> JArray(MockPage(p, n))]) : n \in PageSizes}
       \cup {JObject([data |-> JArray(MockPage(p, n))]) : n \in PageSizes}
       \cup {JObject([id |-> JNumber(p)]),
             JObject([webhookId |-> JString("wh-1"), id |-> JNumber(p)])}
       \cup {JObject([orders |-> JArray(MockPage(p, 37)),
                      data |-> JArray(MockPage(p, pageSize))]),
             JObject([orders |-> JNull, data |-> JArray(MockPage(p, 37))]),
             JObject([orders |-> JString("none"), data |-> JArray(MockPage(p, 37))])}

\* bodies of a 2xx answer of the OAuth token endpoint
TokenResponses == {[access_token |-> "T2"], [token_type |-> "bearer"]}

\* response.access_token
AccessTokenOf(response) ==
  IF "access_token" \in DOMAIN response THEN response.access_token ELSE "undefined"

(* ---------------- caller inputs ---------------- *)
\* the calls the action modules make: method, endpoint, body, query, uri
\* (no caller of this repository passes the uri argument)
CallArgs ==
  {[method |-> "GET", endpoint |-> "/orders", body |-> None, query |-> None,
    uri |-> None],
   [method |-> "GET", endpoint |-> "/orders", body |-> None,
    query |-> Some([status |-> "open"]), uri |-> None],
   [method |-> "POST", endpoint |-> "/orders", body |-> Some([sku |-> "A1"]),
    query |-> Some(EmptyObject), uri |-> None],
   [method |-> "PUT", endpoint |-> "/orders/17", body |-> Some(EmptyObject),
    query |-> Some([status |-> "open", page |-> 7, pageSize |-> 25]), uri |-> None]}
PropertyNames == {"data", "orders"}
Environments == {"production", "demo", "staging"}

NoResult == [kind |-> "none"]
Returned(v) == [kind |-> "return", value |-> v]
Thrown(e) == [kind |-> "throw", value |-> e]
NullError == [name |-> "null"]

(* ---------------- state ---------------- *)
VARIABLES
  credentials,            \* the host's credential bundle
  licensingNoticeLogged,  \* module flag of transport/index.ts
  notices,                \* number of console.warn calls made so far
  op,                     \* the exported function that is running, or "none"
  args,                   \* its arguments
  outcome,                \* its result once it has finished
  dpc,                    \* position inside the running extensivApiRequest
  options,                \* its IRequestOptions
  sent,                   \* network requests issued by the running invocation
  resps,                  \* the answers it received: status (0 for a network failure)
                          \* and, for a 2xx answer, the body
  dresult,                \* what the invocation returned or threw
  calls,                  \* finished Dispatcher invocations of the running function:
                          \* the page asked for, the statuses received, return or
                          \* throw, the size of the page returned
  wr,                     \* locals of extensivApiRequestWithRetry
  pg,                     \* locals of extensivApiRequestAllItems
  triggerNoticeLogged,    \* module flag of the trigger node
  triggerNotices,         \* number of console.warn calls the trigger module made
  nodeNoticeLogged,       \* module flag of the action node
  nodeNotices,            \* number of console.warn calls the action node module made
  ex,                     \* locals of ExtensivOrderManager.execute
  wh,                     \* the running webhook method and what it returned
  pollData,               \* the trigger's workflow static data
  clock,                  \* Date.now()
  tr,                     \* locals of ExtensivOrderManagerTrigger.poll
  fx                      \* argument and results of a helper function under test

vars == <<credentials, licensingNoticeLogged, notices, op, args, outcome, dpc,
          options, sent, resps, dresult, calls, wr, pg, triggerNoticeLogged,
          triggerNotices, nodeNoticeLogged, nodeNotices, ex, wh, pollData, clock,
          tr, fx>>

\* what the transport functions never touch
nodeVars == <<nodeNoticeLogged, nodeNotices, ex, wh>>
auxVars == <<triggerNoticeLogged, triggerNotices, nodeVars, pollData, clock, tr, fx>>

\* the state of the transport module and of its running call
transportVars == <<credentials, licensingNoticeLogged, notices, op, args, outcome,
                   dpc, options, sent, resps, dresult, calls, wr, pg>>

NoArgs == [method |-> "GET", endpoint |-> "/orders", body |-> None,
           query |-> None, uri |-> None]
NoWr == [attempt |-> 0, waitTime |-> InitialWaitTime, sleeps |-> <<>>,
         lastError |-> NullError, maxRetries |-> DefaultMaxRetries]
NoPg == [page |-> 1, returnData |-> <<>>, hasMore |-> TRUE, query |-> EmptyObject,
         propertyName |-> "orders"]

InitTransport ==
  /\ \E env \in Environments :
       credentials = [environment |-> env, clientId |-> "id", clientSecret |-> "secret",
                      accessToken |-> "T1", refreshToken |-> "R1"]
  /\ licensingNoticeLogged = FALSE
  /\ notices = 0
  /\ op = "none"
  /\ args = NoArgs
  /\ outcome = NoResult
  /\ dpc = "idle"
  /\ options = EmptyObject
  /\ sent = <<>>
  /\ resps = <<>>
  /\ dresult = NoResult
  /\ calls = <<>>
  /\ wr = NoWr
  /\ pg = NoPg

OneHour == 3600000

\* new Date(ms).toISOString()
toISOString(ms) == <<"iso", ms>>

\* locals of poll before its first run; previous tells how the last run ended
NoTr == [now |-> toISOString(0), lastPollTime |-> toISOString(0),
         resource |-> "order", previous |-> "none"]
NoFx == [stage |-> "none"]

\* everything but the helper function under test
restVars == <<transportVars, triggerNoticeLogged, triggerNotices, nodeVars, pollData,
             clock, tr>>

\* locals of execute while it is not running
NoEx == [pc |-> "idle", i |-> 0, n |-> 0, continueOnFail |-> FALSE,
         resource |-> "order", operation |-> "get", returnData |-> <<>>,
         result |-> NoResult, log |-> <<>>]

\* no webhook method running; lastOk is the last remote operation that succeeded
NoWh == [method |-> "none", result |-> NoResult, lastOk |-> "none"]

InitRest ==
  /\ triggerNoticeLogged = FALSE
  /\ triggerNotices = 0
  /\ nodeNoticeLogged = FALSE
  /\ nodeNotices = 0
  /\ ex = NoEx
  /\ wh = NoWh
  /\ pollData = EmptyObject
  /\ clock = OneHour
  /\ tr = NoTr

InitAux ==
  /\ InitRest
  /\ fx = NoFx

Init == InitTransport /\ InitAux

(* ---------------- extensivApiRequest ---------------- *)
DataRequest(opts) == [type |-> "data", req |-> opts]
RefreshRequest(opts) == [type |-> "refresh", req |-> opts]

\* entry of extensivApiRequest up to its first await on the network:
\* logLicensingNotice, getCredentials, options, helpers.request(options)
DispatchStart(method, endpoint, body, query, uri) ==
  /\ licensingNoticeLogged' = TRUE
  /\ notices' = IF licensingNoticeLogged THEN notices ELSE notices + 1
  /\ options' = BuildOptions(method, endpoint, body, query, uri, credentials)
  /\ sent' = <<DataRequest(options')>>
  /\ resps' = <<>>
  /\ dresult' = NoResult
  /\ dpc' = "await1"

\* answers of the remote API as the history keeps them
OkAnswer(body) == [status |-> 200, body |-> body]
ErrorAnswer(err) ==
  [status |-> IF "statusCode" \in DOMAIN err THEN err.statusCode ELSE 0]

Statuses(answers) == [i \in DOMAIN answers |-> answers[i].status]

\* number of items of the page a 2xx body holds for the hint propertyName: the
\* length of the array that is the body itself, or the first truthy one of the
\* value under the hint and the value under "data"; -1 when that is no array
PageSizeOf(body, propertyName) ==
  IF body.t = "array" THEN Len(body.items)
  ELSE IF Truthy(GetProp(body, propertyName))
       THEN IF GetProp(body, propertyName).t = "array"
            THEN Len(GetProp(body, propertyName).items) ELSE -1
       ELSE IF Truthy(GetProp(body, "data")) /\ GetProp(body, "data").t = "array"
            THEN Len(GetProp(body, "data").items)
            ELSE -1

\* the invocation settles with result r
DispatchEnd(r) ==
  /\ dresult' = r
  /\ dpc' = "done"
  /\ calls' = Append(calls, [page |-> RequestedPage(sent[1].req),
                             statuses |-> Statuses(resps'),
                             kind |-> r.kind,
                             size |-> IF r.kind = "return"
                                      THEN PageSizeOf(r.value, pg.propertyName)
                                      ELSE -1])


\* variant: a server error starts the refresh cycle as well
IsTokenExpiredOrServerError(err) == HasStatusCode(err, 401) \/ HasStatusCode(err, 500)

\* errorObj.statusCode === 401
IsTokenExpired(err) == HasStatusCode(err, 401)
\* variant: the rate-limit branch is never taken
IsRateLimitedNever(err) == FALSE

\* errorObj.statusCode === 429
IsRateLimited(err) == HasStatusCode(err, 429)

\* the first request succeeds: return response
FirstResponseOk ==
  /\ dpc = "await1"
  /\ \E body \in DataResponses(options) :
       /\ resps' = Append(resps, OkAnswer(body))
       /\ sent' = sent
       /\ DispatchEnd(Returned(body))
  /\ UNCHANGED <<credentials, licensingNoticeLogged, notices, op, args, outcome,
                 options, wr, pg>>
  /\ UNCHANGED auxVars

\* the first request fails: the catch block of extensivApiRequest
FirstResponseError ==
  /\ dpc = "await1"
  /\ \E err \in RawErrors :
       /\ resps' = Append(resps, ErrorAnswer(err))
       /\ IF IsTokenExpired(err)
          THEN /\ sent' = Append(sent, RefreshRequest(RefreshOptions(credentials)))
               /\ dpc' = "awaitRefresh"
               /\ UNCHANGED <<dresult, calls>>
          ELSE /\ sent' = sent
               /\ IF IsRateLimited(err)
                  THEN DispatchEnd(Thrown(RateLimitFailure(err)))
                  ELSE DispatchEnd(Thrown(ApiFailure(err)))
  /\ UNCHANGED <<credentials, licensingNoticeLogged, notices, op, args, outcome,
                 options, wr, pg>>
  /\ UNCHANGED auxVars

\* variant: the new token is written into the credential bundle
CredentialsWithNewToken(creds, newToken) == [creds EXCEPT !.accessToken = newToken]

\* the credential bundle after a refresh: newToken goes into options.headers
\* only, the bundle read by getCredentials is not assigned
CredentialsAfterRefresh(creds, newToken) == creds

\* refreshAccessToken resolves: replace the header and re-issue the request
RefreshOk ==
  /\ dpc = "awaitRefresh"
  /\ \E response \in TokenResponses :
       /\ resps' = Append(resps, OkAnswer(response))
       /\ options' = WithNewToken(options, AccessTokenOf(response))
       /\ sent' = Append(sent, DataRequest(options'))
       /\ credentials' = CredentialsAfterRefresh(credentials, AccessTokenOf(response))
       /\ dpc' = "await2"
  /\ UNCHANGED <<licensingNoticeLogged, notices, op, args, outcome,
                 dresult, calls, wr, pg>>
  /\ UNCHANGED auxVars

\* refreshAccessToken throws; the inner catch of extensivApiRequest wraps it
RefreshError ==
  /\ dpc = "awaitRefresh"
  /\ \E err \in RawErrors :
       /\ resps' = Append(resps, ErrorAnswer(err))
       /\ sent' = sent
       /\ DispatchEnd(Thrown(AuthFailure(RefreshFailure(err))))
  /\ UNCHANGED <<credentials, licensingNoticeLogged, notices, op, args, outcome,
                 options, wr, pg>>
  /\ UNCHANGED auxVars

\* the re-issued request succeeds
SecondResponseOk ==
  /\ dpc = "await2"
  /\ \E body \in DataResponses(options) :
       /\ resps' = Append(resps, OkAnswer(body))
       /\ sent' = sent
       /\ DispatchEnd(Returned(body))
  /\ UNCHANGED <<credentials, licensingNoticeLogged, notices, op, args, outcome,
                 options, wr, pg>>
  /\ UNCHANGED auxVars

\* the re-issued request fails: caught by the same inner catch
SecondResponseError ==
  /\ dpc = "await2"
  /\ \E err \in RawErrors :
       /\ resps' = Append(resps, ErrorAnswer(err))
       /\ sent' = sent
       /\ DispatchEnd(Thrown(AuthFailure(err)))
  /\ UNCHANGED <<credentials, licensingNoticeLogged, notices, op, args, outcome,
                 options, wr, pg>>
  /\ UNCHANGED auxVars

\* a direct call of extensivApiRequest by an action module
CallRequest ==
  /\ op = "none"
  /\ \E a \in CallArgs :
       /\ args' = a
       /\ DispatchStart(a.method, a.endpoint, a.body, a.query, a.uri)
  /\ op' = "request"
  /\ UNCHANGED <<credentials, outcome, calls, wr, pg>>
  /\ UNCHANGED auxVars

\* the direct call hands the Dispatcher's result to its caller
RequestDone ==
  /\ op = "request"
  /\ dpc = "done"
  /\ outcome = NoResult
  /\ outcome' = dresult
  /\ dpc' = "idle"
  /\ UNCHANGED <<credentials, licensingNoticeLogged, notices, op, args, options,
                 sent, resps, dresult, calls, wr, pg>>
  /\ UNCHANGED auxVars

(* ---------------- extensivApiRequestWithRetry ---------------- *)
\* variant: the wrapper retries whatever the Dispatcher threw
IsRetryableAlways(err) == TRUE

\* the wrapper retries iff errorObj.statusCode === 429 on the caught error
IsRetryable(err) == HasStatusCode(err, 429)

\* waitTime = Math.min(waitTime * 2, 120000)
NextWaitTime(w) == IF w * 2 < MaxWaitTime THEN w * 2 ELSE MaxWaitTime

MaxRetriesValues == (0..MaxRetriesArg) \cup {DefaultMaxRetries}

\* entry of the wrapper: locals, then the first iteration of the for loop
CallWithRetry ==
  /\ op = "none"
  /\ \E a \in CallArgs, n \in MaxRetriesValues :
       /\ args' = a
       /\ wr' = [attempt |-> 0, waitTime |-> InitialWaitTime, sleeps |-> <<>>,
                 lastError |-> NullError, maxRetries |-> n]
       /\ IF 0 < n
          THEN /\ DispatchStart(a.method, a.endpoint, a.body, a.query, None)
               /\ outcome' = outcome
          ELSE /\ outcome' = Thrown(NullError)
               /\ UNCHANGED <<licensingNoticeLogged, notices, options, sent, resps,
                              dresult, dpc>>
  /\ op' = "retry"
  /\ UNCHANGED <<credentials, calls, pg>>
  /\ UNCHANGED auxVars

\* the awaited Dispatcher call settles: return, or the catch block, the sleep
\* and the next iteration of the for loop
RetryStep ==
  /\ op = "retry"
  /\ dpc = "done"
  /\ outcome = NoResult
  /\ IF dresult.kind = "return"
     THEN /\ outcome' = dresult
          /\ dpc' = "idle"
          /\ UNCHANGED <<licensingNoticeLogged, notices, options, sent, resps,
                         dresult, wr>>
     ELSE LET err == dresult.value
          IN IF ~IsRetryable(err)
             THEN /\ outcome' = Thrown(err)
                  /\ wr' = [wr EXCEPT !.lastError = err]
                  /\ dpc' = "idle"
                  /\ UNCHANGED <<licensingNoticeLogged, notices, options, sent,
                                 resps, dresult>>
             ELSE /\ wr' = [wr EXCEPT !.lastError = err,
                                      !.sleeps = Append(@, wr.waitTime),
                                      !.waitTime = NextWaitTime(@),
                                      !.attempt = @ + 1]
                  /\ IF wr.attempt + 1 < wr.maxRetries
                     THEN /\ DispatchStart(args.method, args.endpoint, args.body,
                                           args.query, None)
                          /\ outcome' = outcome
                     ELSE /\ outcome' = Thrown(err)
                          /\ dpc' = "idle"
                          /\ UNCHANGED <<licensingNoticeLogged, notices, options,
                                         sent, resps, dresult>>
  /\ UNCHANGED <<credentials, op, args, calls, pg>>
  /\ UNCHANGED auxVars

(* ---------------- extensivApiRequestAllItems ---------------- *)
\* variant: responseData.data || responseData[propertyName] || responseData
ExtractItemsDataFirst(responseData, propertyName) ==
  IF Truthy(GetProp(responseData, "data"))
  THEN GetProp(responseData, "data")
  ELSE IF Truthy(GetProp(responseData, propertyName))
       THEN GetProp(responseData, propertyName)
       ELSE responseData

\* responseData[propertyName] || responseData.data || responseData
ExtractItems(responseData, propertyName) ==
  IF Truthy(GetProp(responseData, propertyName))
  THEN GetProp(responseData, propertyName)
  ELSE IF Truthy(GetProp(responseData, "data"))
       THEN GetProp(responseData, "data")
       ELSE responseData

\* variant: hasMore = items.length > 0
FullPageNonEmpty(items) == Len(items) > 0

\* variant: hasMore = items.length >= pageSize
FullPageOrMore(items) == Len(items) >= pageSize

\* hasMore = items.length === pageSize
FullPage(items) == Len(items) = pageSize

\* variant: the caller's page and pageSize are kept when present
PagerQueryCallerWins(query, page) ==
  (IF query.some THEN query.val ELSE EmptyObject) @@ [page |-> page, pageSize |-> pageSize]

\* query = query || {}; query.page = page; query.pageSize = pageSize
PagerQuery(query, page) ==
  [page |-> page, pageSize |-> pageSize] @@ (IF query.some THEN query.val ELSE EmptyObject)

\* entry of the Pager up to the first Dispatcher call
CallAllItems ==
  /\ op = "none"
  /\ \E a \in CallArgs, pn \in PropertyNames :
       /\ args' = a
       /\ pg' = [page |-> 1, returnData |-> <<>>, hasMore |-> TRUE,
                 query |-> PagerQuery(a.query, 1), propertyName |-> pn]
       /\ DispatchStart(a.method, a.endpoint, a.body, Some(pg'.query), None)
  /\ op' = "allItems"
  /\ UNCHANGED <<credentials, outcome, calls, wr>>
  /\ UNCHANGED auxVars

\* variant: a failed page ends the run with the items gathered so far
PagerPartialResult(returnData, failure) == Returned(returnData)

\* the await in the loop stands in no try block: the rejection of the
\* Dispatcher call is the rejection of the Pager
PagerFailure(returnData, failure) == failure

\* the awaited Dispatcher call settles: the rest of the loop body and either
\* the next Dispatcher call or the return
PagerStep ==
  /\ op = "allItems"
  /\ dpc = "done"
  /\ outcome = NoResult
  /\ IF dresult.kind = "throw"
     THEN /\ outcome' = PagerFailure(pg.returnData, dresult)
          /\ dpc' = "idle"
          /\ UNCHANGED <<licensingNoticeLogged, notices, options, sent, resps,
                         dresult, pg>>
     ELSE LET items == ExtractItems(dresult.value, pg.propertyName)
              more == IsArray(items) /\ FullPage(items.items)
              data == IF IsArray(items) THEN pg.returnData \o items.items
                      ELSE pg.returnData
              nextQuery == [pg.query EXCEPT !.page = pg.page + 1]
          IN /\ pg' = [pg EXCEPT !.returnData = data, !.hasMore = more,
                                 !.page = @ + 1, !.query = nextQuery]
             /\ IF more
                THEN /\ pg.page < MaxPages
                     /\ DispatchStart(args.method, args.endpoint, args.body,
                                      Some(nextQuery), None)
                     /\ outcome' = outcome
                ELSE /\ outcome' = Returned(data)
                     /\ dpc' = "idle"
                     /\ UNCHANGED <<licensingNoticeLogged, notices, options, sent,
                                    resps, dresult>>
  /\ UNCHANGED <<credentials, op, args, calls, wr>>
  /\ UNCHANGED auxVars

(* ---------------- utils/index.ts ---------------- *)
\* variant: if (value)
KeepsTruthy(value) == Truthy(value)

\* value !== undefined && value !== null && value !== ''
Keeps(value) ==
  /\ value # JUndefined
  /\ value # JNull
  /\ value # JString("")

\* typeof value === 'object' && !Array.isArray(value), for a value kept
IsPlainObject(value) == value.t = "object"

\* variant: nested objects are copied as they are
cleanObjectShallow(obj) ==
  JObject([key \in {k \in DOMAIN obj.props : Keeps(obj.props[k])} |-> obj.props[key]])

RECURSIVE cleanObject(_)
cleanObject(obj) ==
  LET value(key) == obj.props[key]
      cleaned == {key \in DOMAIN obj.props :
                    /\ Keeps(value(key))
                    /\ IsPlainObject(value(key)) =>
                         DOMAIN cleanObject(value(key)).props # {}}
  IN JObject([key \in cleaned |->
                IF IsPlainObject(value(key)) THEN cleanObject(value(key))
                ELSE value(key)])

\* parseAddress: the seven address fields, cleaned
parseAddress(addressFields) ==
  cleanObject(JObject([k \in {"street1", "street2", "city", "state", "postalCode",
                              "country", "phone"} |->
                         GetProp(JObject(addressFields), k)]))

(* ---------------- transport: validateRequiredFields ---------------- *)
\* data[field] === undefined || data[field] === null || data[field] === ''
IsMissing(data, field) ==
  GetProp(JObject(data), field) \in {JUndefined, JNull, JString("")}

\* throws Error('Missing required fields: a, b') when some listed field is
\* missing, returns undefined otherwise
validateRequiredFields(data, requiredFields) ==
  LET missingFields == SelectSeq(requiredFields, LAMBDA f : IsMissing(data, f))
  IN IF Len(missingFields) > 0
     THEN Thrown([name |-> "Error",
                  message |-> <<"Missing required fields: ", missingFields>>])
     ELSE Returned(JUndefined)

(* ---------------- actions/order: executeOrder, operation create ---------------- *)
\* the node parameters of the operation; the items drawn have no line items
\* and no tags
OrderParams ==
  {[orderNumber |-> on, channelId |-> JNumber(3), additionalFields |-> af,
    shippingAddress |-> sa, lineItems |-> EmptyObject] :
     on \in {JString(""), JString("SO-1")},
     af \in {EmptyObject, [notes |-> JString("")]},
     sa \in {EmptyObject, [street1 |-> JString("1 Main St"), city |-> JString("")]}}

\* the request body built from the parameters
OrderBody(p) ==
  LET body == cleanObject(JObject(p.additionalFields
                                    @@ [orderNumber |-> p.orderNumber,
                                        channelId |-> p.channelId])).props
  IN IF DOMAIN p.shippingAddress # {}
     THEN [shippingAddress |-> parseAddress(p.shippingAddress)] @@ body
     ELSE body

\* executeOrder('create') up to its await on extensivApiRequest
OrderCreateCall(p) ==
  /\ args' = [method |-> "POST", endpoint |-> "/orders",
              body |-> Some(OrderBody(p)), query |-> None, uri |-> None,
              params |-> p]
  /\ DispatchStart("POST", "/orders", Some(OrderBody(p)), None, None)

\* a call of executeOrder('create') by itself
CallOrderCreate ==
  /\ op = "none"
  /\ \E p \in OrderParams : OrderCreateCall(p)
  /\ op' = "executeOrder"
  /\ UNCHANGED <<credentials, outcome, calls, wr, pg>>
  /\ UNCHANGED auxVars

\* the awaited call settles: responseData is returned, an error propagates
OrderDone ==
  /\ op = "executeOrder"
  /\ dpc = "done"
  /\ outcome = NoResult
  /\ outcome' = dresult
  /\ dpc' = "idle"
  /\ UNCHANGED <<credentials, licensingNoticeLogged, notices, op, args, options,
                 sent, resps, dresult, calls, wr, pg>>
  /\ UNCHANGED auxVars

(* ---------------- the caller takes the result ---------------- *)
\* the exported function has settled; its locals are gone and the next call
\* starts afresh (the module flag and the credential bundle stay)
Finish ==
  /\ op # "none"
  /\ outcome # NoResult
  /\ op' = "none"
  /\ args' = NoArgs
  /\ outcome' = NoResult
  /\ dpc' = "idle"
  /\ options' = EmptyObject
  /\ sent' = <<>>
  /\ resps' = <<>>
  /\ dresult' = NoResult
  /\ calls' = <<>>
  /\ wr' = NoWr
  /\ pg' = NoPg
  /\ UNCHANGED <<credentials, licensingNoticeLogged, notices>>
  /\ UNCHANGED auxVars

Next ==
  \/ CallRequest
  \/ FirstResponseOk
  \/ FirstResponseError
  \/ RefreshOk
  \/ RefreshError
  \/ SecondResponseOk
  \/ SecondResponseError
  \/ RequestDone
  \/ CallWithRetry
  \/ RetryStep
  \/ CallAllItems
  \/ PagerStep
  \/ CallOrderCreate
  \/ OrderDone
  \/ Finish

Spec == Init /\ [][Next]_vars

(***************************************************************************)
(* ExtensivOrderManagerTrigger.poll                                        *)
(***************************************************************************)
MaxTicks == 3
PollPageSize == 100

\* the resource parameter and the additionalFilters collection of the trigger
PollResources == {"order", "shipment"}
PollFilters ==
  {EmptyObject,
   [channelId |-> JNumber(5), warehouseId |-> JNumber(0), status |-> JString("open")]}

\* the switch on resource
PollEndpoint(resource) ==
  CASE resource = "order" -> "/orders"
    [] resource = "product" -> "/products"
    [] resource = "inventory" -> "/inventory"
    [] resource = "purchaseOrder" -> "/purchaseorders"
    [] resource = "shipment" -> "/shipments"
    [] resource = "customer" -> "/customers"
    [] resource = "return" -> "/returns"
    [] OTHER -> "/orders"

\* (pollData.lastPollTime as string) || new Date(Date.now() - 3600000).toISOString()
\* (what the trigger stores there is a non-empty ISO string)
LastPollTime(data, nowMs) ==
  IF "lastPollTime" \in DOMAIN data THEN data.lastPollTime
  ELSE toISOString(nowMs - OneHour)

\* {modifiedAfter, pageSize: 100} plus the filters that are set
PollQuery(lastPollTime, filters) ==
  LET set == {k \in {"channelId", "warehouseId", "status"} :
                Truthy(GetProp(JObject(filters), k))}
  IN [k \in set |-> filters[k]]
       @@ [modifiedAfter |-> lastPollTime, pageSize |-> PollPageSize]

\* variant: pollData.lastPollTime = now only after a successful request
PollDataAfterSuccessOnly(data, now, kind) ==
  IF kind = "return" THEN [lastPollTime |-> now] @@ data ELSE data

\* pollData.lastPollTime = now, in the try block and in the catch block
PollDataAfter(data, now, kind) == [lastPollTime |-> now] @@ data

\* variant: an empty array is emitted as well
PollResultAnyArray(response) ==
  LET items == IF Truthy(GetProp(response, "data")) THEN GetProp(response, "data")
               ELSE response
  IN IF IsArray(items) THEN items ELSE JNull

\* what poll returns for a response: the items, or null when
\* response.data || response is no array or an empty one
PollResult(response) ==
  LET items == IF Truthy(GetProp(response, "data")) THEN GetProp(response, "data")
               ELSE response
  IN IF IsArray(items) /\ Len(items.items) > 0 THEN items ELSE JNull

\* time passes
Tick ==
  /\ clock < OneHour + MaxTicks
  /\ clock' = clock + 1
  /\ UNCHANGED <<transportVars, triggerNoticeLogged, triggerNotices, nodeVars,
                 pollData, tr, fx>>

\* poll up to its await on extensivApiRequest
PollStart ==
  /\ op = "none"
  /\ triggerNoticeLogged' = TRUE
  /\ triggerNotices' = IF triggerNoticeLogged THEN triggerNotices
                       ELSE triggerNotices + 1
  /\ \E resource \in PollResources, additionalFilters \in PollFilters :
       LET lastPollTime == LastPollTime(pollData, clock)
           query == PollQuery(lastPollTime, additionalFilters)
       IN /\ tr' = [tr EXCEPT !.now = toISOString(clock),
                              !.lastPollTime = lastPollTime,
                              !.resource = resource]
          /\ args' = [method |-> "GET", endpoint |-> PollEndpoint(resource),
                      body |-> Some(EmptyObject), query |-> Some(query),
                      uri |-> None]
          /\ DispatchStart("GET", PollEndpoint(resource), Some(EmptyObject),
                           Some(query), None)
  /\ op' = "poll"
  /\ UNCHANGED <<credentials, outcome, calls, wr, pg, nodeVars, pollData, clock, fx>>

\* the awaited extensivApiRequest settles: the rest of the try block, or the
\* catch block
PollDone ==
  /\ op = "poll"
  /\ dpc = "done"
  /\ outcome = NoResult
  /\ pollData' = PollDataAfter(pollData, tr.now, dresult.kind)
  /\ outcome' = IF dresult.kind = "return"
                THEN Returned(PollResult(dresult.value))
                ELSE Returned(JNull)
  /\ tr' = [tr EXCEPT !.previous =
                 IF dresult.kind = "throw" THEN "failed"
                 ELSE IF PollResult(dresult.value) = JNull THEN "empty"
                      ELSE "items"]
  /\ dpc' = "idle"
  /\ UNCHANGED <<credentials, licensingNoticeLogged, notices, op, args, options,
                 sent, resps, dresult, calls, wr, pg, triggerNoticeLogged,
                 triggerNotices, nodeVars, clock, fx>>

NextTrigger ==
  \/ PollStart
  \/ Tick
  \/ FirstResponseOk
  \/ FirstResponseError
  \/ RefreshOk
  \/ RefreshError
  \/ SecondResponseOk
  \/ SecondResponseError
  \/ PollDone
  \/ Finish

SpecTrigger == Init /\ [][NextTrigger]_vars

(***************************************************************************)
(* ExtensivOrderManager.execute                                            *)
(***************************************************************************)
MaxItems == 2

\* the resource and operation parameters: two operations of the order
\* resource, an operation name no branch of executeOrder matches, and a
\* resource the switch does not list
ExecuteTargets ==
  {<<"order", "get">>, <<"order", "create">>, <<"order", "archive">>,
   <<"invoice", "get">>}

\* the cases of switch (resource)
SupportedResources ==
  {"order", "product", "inventory", "purchaseOrder", "shipment", "customer",
   "warehouse", "channel", "vendor", "listing", "return", "analytics"}

\* variant: the switch has no default branch
IsSupportedAlways(resource) == TRUE

IsSupported(resource) == resource \in SupportedResources

\* the operations executeOrder has a branch for
OrderOperations ==
  {"get", "getAll", "create", "update", "cancel", "ship", "updateTracking",
   "addNote", "getShipments", "sendToFulfillment", "updateStatus", "split", "merge"}

\* new NodeOperationError(node, `The resource "${resource}" is not supported!`)
UnsupportedResourceError(resource) ==
  [name |-> "NodeOperationError", message |-> "The resource is not supported!",
   resource |-> resource]

\* variant: a failure ends the loop whatever continueOnFail says
AbortsAlways(continueOnFail) == TRUE

\* the catch block rethrows unless this.continueOnFail()
Aborts(continueOnFail) == ~continueOnFail

\* what the loop body pushes for the settled action call
ItemOutputs(settled) ==
  IF settled.kind = "throw"
  THEN <<[json |-> JObject([error |-> JString(settled.value.message)])]>>
  ELSE IF IsArray(settled.value)
       THEN [k \in DOMAIN settled.value.items |-> [json |-> settled.value.items[k]]]
       ELSE <<[json |-> settled.value]>>

\* execute up to the loop
ExecuteStart ==
  /\ op = "none"
  /\ ex.pc = "idle"
  /\ wh.method = "none"
  /\ nodeNoticeLogged' = TRUE
  /\ nodeNotices' = IF nodeNoticeLogged THEN nodeNotices ELSE nodeNotices + 1
  /\ \E n \in 0..MaxItems, c \in BOOLEAN, t \in ExecuteTargets :
       ex' = [NoEx EXCEPT !.pc = "loop", !.n = n, !.continueOnFail = c,
                          !.resource = t[1], !.operation = t[2]]
  /\ UNCHANGED <<transportVars, triggerNoticeLogged, triggerNotices, wh, pollData,
                 clock, tr, fx>>

\* one iteration up to its await: the action call for item i starts
ExecuteItem ==
  /\ ex.pc = "loop"
  /\ ex.i < ex.n
  /\ op = "none"
  /\ IF ~IsSupported(ex.resource)
     THEN /\ outcome' = Thrown(UnsupportedResourceError(ex.resource))
          /\ op' = "execute"
          /\ UNCHANGED <<licensingNoticeLogged, notices, args, dpc, options, sent,
                         resps, dresult>>
     ELSE /\ op' = "executeOrder"
          /\ IF ex.operation = "get"
             THEN /\ args' = [NoArgs EXCEPT !.endpoint = "/orders/17"]
                  /\ DispatchStart("GET", "/orders/17", None, None, None)
                  /\ outcome' = outcome
             ELSE IF ex.operation = "create"
                  THEN /\ \E p \in OrderParams : OrderCreateCall(p)
                       /\ outcome' = outcome
                  ELSE /\ outcome' = Returned(JObject(EmptyObject))
                       /\ UNCHANGED <<licensingNoticeLogged, notices, args, dpc,
                                      options, sent, resps, dresult>>
  /\ ex' = [ex EXCEPT !.pc = "await",
                      !.log = Append(@, [event |-> "start", item |-> ex.i,
                                         requests |-> 0, failed |-> FALSE])]
  /\ UNCHANGED <<credentials, calls, wr, pg, triggerNoticeLogged, triggerNotices,
                 nodeNoticeLogged, nodeNotices, wh, pollData, clock, tr, fx>>

\* the action call has settled: the rest of the try block, or the catch block
ExecuteItemDone ==
  /\ ex.pc = "await"
  /\ outcome # NoResult
  /\ LET failed == outcome.kind = "throw"
         entry == [event |-> "end", item |-> ex.i, requests |-> Len(sent),
                   failed |-> failed]
     IN IF failed /\ Aborts(ex.continueOnFail)
        THEN ex' = [ex EXCEPT !.pc = "done", !.result = Thrown(outcome.value),
                              !.log = Append(@, entry)]
        ELSE ex' = [ex EXCEPT !.pc = "loop", !.i = @ + 1,
                              !.returnData = @ \o ItemOutputs(outcome),
                              !.log = Append(@, entry)]
  /\ op' = "none"
  /\ args' = NoArgs
  /\ outcome' = NoResult
  /\ dpc' = "idle"
  /\ options' = EmptyObject
  /\ sent' = <<>>
  /\ resps' = <<>>
  /\ dresult' = NoResult
  /\ calls' = <<>>
  /\ UNCHANGED <<credentials, licensingNoticeLogged, notices, wr, pg,
                 triggerNoticeLogged, triggerNotices, nodeNoticeLogged, nodeNotices,
                 wh, pollData, clock, tr, fx>>

\* the loop is over: return [returnData]
ExecuteReturn ==
  /\ ex.pc = "loop"
  /\ ex.i >= ex.n
  /\ ex' = [ex EXCEPT !.pc = "done", !.result = Returned(<<ex.returnData>>)]
  /\ UNCHANGED <<transportVars, triggerNoticeLogged, triggerNotices,
                 nodeNoticeLogged, nodeNotices, wh, pollData, clock, tr, fx>>

\* the host has taken the result of execute
ExecuteFinish ==
  /\ ex.pc = "done"
  /\ ex' = NoEx
  /\ UNCHANGED <<transportVars, triggerNoticeLogged, triggerNotices,
                 nodeNoticeLogged, nodeNotices, wh, pollData, clock, tr, fx>>

NextExecute ==
  \/ ExecuteStart
  \/ ExecuteItem
  \/ FirstResponseOk
  \/ FirstResponseError
  \/ RefreshOk
  \/ RefreshError
  \/ SecondResponseOk
  \/ SecondResponseError
  \/ OrderDone
  \/ ExecuteItemDone
  \/ ExecuteReturn
  \/ ExecuteFinish

SpecExecute == Init /\ [][NextExecute]_vars

(***************************************************************************)
(* ExtensivOrderManagerTrigger.webhookMethods: create and delete           *)
(***************************************************************************)
\* the event parameter of the trigger
WebhookEvents == {"order.created", "order.shipped"}

\* the body of create
WebhookBody(event) == [url |-> "https://n8n.host/webhook/1", event |-> event,
                       isActive |-> TRUE]

\* `/webhooks/${webhookId}`
WebhookEndpoint(webhookId) == <<"/webhooks/", webhookId>>

\* webhookData.webhookId as delete reads it
StoredWebhookId(data) ==
  IF "webhookId" \in DOMAIN data THEN data.webhookId ELSE JUndefined

\* response.webhookId || response.id
ResponseWebhookId(response) ==
  IF Truthy(GetProp(response, "webhookId")) THEN GetProp(response, "webhookId")
  ELSE GetProp(response, "id")

\* the static data after create: the assignment stands after the await in the
\* try block
WebhookDataAfterCreate(data, settled) ==
  IF settled.kind = "return"
  THEN [k \in DOMAIN data \cup {"webhookId"} |->
          IF k = "webhookId" THEN ResponseWebhookId(settled.value) ELSE data[k]]
  ELSE data

\* variant: the id is dropped whether the DELETE succeeded or not
WebhookDataDroppedAlways(data, settled) ==
  [k \in DOMAIN data \ {"webhookId"} |-> data[k]]

\* the static data after delete: `delete webhookData.webhookId` stands after
\* the await in the try block
WebhookDataAfterDelete(data, settled) ==
  IF settled.kind = "return"
  THEN [k \in DOMAIN data \ {"webhookId"} |-> data[k]]
  ELSE data

\* create up to its await
WebhookCreateStart ==
  /\ op = "none"
  /\ ex.pc = "idle"
  /\ wh.method = "none"
  /\ \E event \in WebhookEvents :
       /\ args' = [NoArgs EXCEPT !.method = "POST", !.endpoint = "/webhooks",
                                 !.body = Some(WebhookBody(event))]
       /\ DispatchStart("POST", "/webhooks", Some(WebhookBody(event)), None, None)
  /\ op' = "webhook"
  /\ wh' = [wh EXCEPT !.method = "create", !.result = NoResult]
  /\ UNCHANGED <<credentials, outcome, calls, wr, pg, triggerNoticeLogged,
                 triggerNotices, nodeNoticeLogged, nodeNotices, ex, pollData, clock,
                 tr, fx>>

\* create after its await: the rest of the try block, or the catch block
WebhookCreateDone ==
  /\ op = "webhook"
  /\ wh.method = "create"
  /\ dpc = "done"
  /\ outcome = NoResult
  /\ pollData' = WebhookDataAfterCreate(pollData, dresult)
  /\ outcome' = Returned(JBool(dresult.kind = "return"))
  /\ wh' = [wh EXCEPT !.result = outcome',
                      !.lastOk = IF dresult.kind = "return" THEN "create" ELSE @]
  /\ dpc' = "idle"
  /\ UNCHANGED <<credentials, licensingNoticeLogged, notices, op, args, options, sent,
                 resps, dresult, calls, wr, pg, triggerNoticeLogged, triggerNotices,
                 nodeNoticeLogged, nodeNotices, ex, clock, tr, fx>>

\* delete up to its await, or to its return when no id is stored
WebhookDeleteStart ==
  /\ op = "none"
  /\ ex.pc = "idle"
  /\ wh.method = "none"
  /\ op' = "webhook"
  /\ LET webhookId == StoredWebhookId(pollData)
     IN IF ~Truthy(webhookId)
        THEN /\ outcome' = Returned(JBool(TRUE))
             /\ wh' = [wh EXCEPT !.method = "delete", !.result = outcome']
             /\ UNCHANGED <<licensingNoticeLogged, notices, args, dpc, options, sent,
                            resps, dresult>>
        ELSE /\ args' = [NoArgs EXCEPT !.method = "DELETE",
                                       !.endpoint = WebhookEndpoint(webhookId)]
             /\ DispatchStart("DELETE", WebhookEndpoint(webhookId), None, None, None)
             /\ outcome' = outcome
             /\ wh' = [wh EXCEPT !.method = "delete", !.result = NoResult]
  /\ UNCHANGED <<credentials, calls, wr, pg, triggerNoticeLogged, triggerNotices,
                 nodeNoticeLogged, nodeNotices, ex, pollData, clock, tr, fx>>

\* delete after its await: the rest of the try block, or the catch block
WebhookDeleteDone ==
  /\ op = "webhook"
  /\ wh.method = "delete"
  /\ dpc = "done"
  /\ outcome = NoResult
  /\ pollData' = WebhookDataAfterDelete(pollData, dresult)
  /\ outcome' = Returned(JBool(dresult.kind = "return"))
  /\ wh' = [wh EXCEPT !.result = outcome',
                      !.lastOk = IF dresult.kind = "return" THEN "delete" ELSE @]
  /\ dpc' = "idle"
  /\ UNCHANGED <<credentials, licensingNoticeLogged, notices, op, args, options, sent,
                 resps, dresult, calls, wr, pg, triggerNoticeLogged, triggerNotices,
                 nodeNoticeLogged, nodeNotices, ex, clock, tr, fx>>

\* the host has taken the result of the webhook method
WebhookFinish ==
  /\ op = "webhook"
  /\ outcome # NoResult
  /\ op' = "none"
  /\ args' = NoArgs
  /\ outcome' = NoResult
  /\ dpc' = "idle"
  /\ options' = EmptyObject
  /\ sent' = <<>>
  /\ resps' = <<>>
  /\ dresult' = NoResult
  /\ calls' = <<>>
  /\ wh' = [wh EXCEPT !.method = "none"]
  /\ UNCHANGED <<credentials, licensingNoticeLogged, notices, wr, pg,
                 triggerNoticeLogged, triggerNotices, nodeNoticeLogged, nodeNotices,
                 ex, pollData, clock, tr, fx>>

NextWebhook ==
  \/ WebhookCreateStart
  \/ WebhookDeleteStart
  \/ FirstResponseOk
  \/ FirstResponseError
  \/ RefreshOk
  \/ RefreshError
  \/ SecondResponseOk
  \/ SecondResponseError
  \/ WebhookCreateDone
  \/ WebhookDeleteDone
  \/ WebhookFinish

SpecWebhook == Init /\ [][NextWebhook]_vars

(***************************************************************************)
(* utils/index.ts: cleanObject                                             *)
(***************************************************************************)
\* property values that are no plain objects
CleanLeaves ==
  {JUndefined, JNull, JString(""), JString("x"), JNumber(0), JBool(FALSE),
   JArray(<<>>), JArray(<<JString("")>>)}

\* plain objects nested two deep and one deep
InnerObjects ==
  {JObject(EmptyObject), JObject([n |-> JNull]), JObject([n |-> JNumber(0)])}
NestedObjects ==
  {JObject(EmptyObject)}
    \cup {JObject([n |-> v]) : v \in CleanLeaves \cup InnerObjects}

\* the plain objects cleanObject is applied to
CleanInputs ==
  {JObject(f) : f \in UNION {[S -> CleanLeaves \cup NestedObjects] :
                                S \in SUBSET {"a", "b"}}}

InitClean ==
  /\ InitTransport
  /\ InitRest
  /\ \E x \in CleanInputs : fx = [stage |-> "input", x |-> x]

\* cleanObject(x)
CleanOnce ==
  /\ fx.stage = "input"
  /\ fx' = [stage |-> "once", x |-> fx.x, once |-> cleanObject(fx.x)]
  /\ UNCHANGED restVars

\* cleanObject(cleanObject(x))
CleanTwice ==
  /\ fx.stage = "once"
  /\ fx' = [stage |-> "twice", x |-> fx.x, once |-> fx.once,
            twice |-> cleanObject(fx.once)]
  /\ UNCHANGED restVars

NextClean == CleanOnce \/ CleanTwice

SpecClean == InitClean /\ [][NextClean]_vars

(***************************************************************************)
(* transport/index.ts: formatDate, buildQueryFromAdditionalFields          *)
(***************************************************************************)
\* date strings new Date() parses, with the toISOString() of the instant
CanonicalDate ==
  [s \in {"2024-01-15", "2024-01-15T00:00:00.000Z"} |-> "2024-01-15T00:00:00.000Z"]

\* formatDate: new Date(date).toISOString() throws RangeError for a string
\* that is no date; a value that is neither a string nor a Date has no
\* toISOString method
formatDate(date) ==
  IF date.t = "string"
  THEN IF date.str \in DOMAIN CanonicalDate
       THEN Returned(JString(CanonicalDate[date.str]))
       ELSE Thrown([name |-> "RangeError", message |-> "Invalid time value"])
  ELSE Thrown([name |-> "TypeError", message |-> "date.toISOString is not a function"])

\* the string an array element contributes to Array.prototype.join
ElementString(e) ==
  CASE e.t = "string" -> e.str
    [] e.t = "number" -> ToString(e.num)
    [] e.t = "boolean" -> IF e.bool THEN "true" ELSE "false"
    [] OTHER -> ""

\* value.join(',')
JoinComma(items) ==
  LET parts == [i \in DOMAIN items |-> ElementString(items[i])]
  IN IF Len(parts) = 0 THEN JString("")
     ELSE IF Len(parts) = 1 THEN JString(parts[1])
          ELSE JCsv(parts)

\* key === 'dateFrom' || key === 'dateTo' || key === 'modifiedAfter'
IsDateKey(key) == key \in {"dateFrom", "dateTo", "modifiedAfter"}

\* variant: an array is placed into the query as it is
QueryValueNoJoin(key, value) ==
  IF IsDateKey(key) THEN formatDate(value) ELSE Returned(value)

\* what is assigned to query[key] for a value that is kept, or what is thrown
QueryValue(key, value) ==
  IF IsDateKey(key) THEN formatDate(value)
  ELSE IF IsArray(value) THEN Returned(JoinComma(value.items))
       ELSE Returned(value)

\* the keys of the additional fields in the order of Object.entries
FieldOrder == <<"status", "ids", "dateFrom", "dateTo", "modifiedAfter">>

\* buildQueryFromAdditionalFields: the query, or the error of the first entry
\* whose date cannot be formatted
buildQueryFromAdditionalFields(additionalFields) ==
  LET kept == {k \in DOMAIN additionalFields : Keeps(additionalFields[k])}
      failing == SelectSeq(FieldOrder,
                   LAMBDA k : /\ k \in kept
                              /\ QueryValue(k, additionalFields[k]).kind = "throw")
  IN IF Len(failing) > 0
     THEN QueryValue(failing[1], additionalFields[failing[1]])
     ELSE Returned([k \in kept |-> QueryValue(k, additionalFields[k]).value])

\* values of the additional fields that are no dates
FieldValues ==
  {JUndefined, JNull, JString(""), JString("open"), JNumber(0), JBool(FALSE),
   JArray(<<JString("1"), JString("2"), JString("3")>>), JArray(<<>>),
   JArray(<<JNumber(7)>>), JObject([min |-> JNumber(1)])}

\* values under a date key
DateValues ==
  {JUndefined, JString(""), JString("2024-01-15"),
   JString("2024-01-15T00:00:00.000Z"), JString("next week"), JNumber(0),
   JArray(<<JString("2024-01-15")>>)}

\* the additional fields buildQueryFromAdditionalFields is applied to
QueryInputs ==
  UNION {[S -> FieldValues] : S \in SUBSET {"status", "ids"}}
\* with or without a value under dateFrom
QueryInputsWithDate ==
  QueryInputs \cup {[dateFrom |-> d] @@ f : d \in DateValues, f \in QueryInputs}

InitQuery ==
  /\ InitTransport
  /\ InitRest
  /\ \E x \in QueryInputsWithDate : fx = [stage |-> "input", x |-> x]

BuildQuery ==
  /\ fx.stage = "input"
  /\ fx' = [stage |-> "built", x |-> fx.x,
            result |-> buildQueryFromAdditionalFields(fx.x)]
  /\ UNCHANGED restVars

NextQuery == BuildQuery

SpecQuery == InitQuery /\ [][NextQuery]_vars

(***************************************************************************)
(* utils/index.ts: parseLineItems                                          *)
(***************************************************************************)
ItemFields == {"productId", "sku", "quantity", "unitPrice", "name"}

\* the callback of map: reading a property of null or undefined throws
LineItem(item) ==
  IF item \in {JNull, JUndefined}
  THEN Thrown([name |-> "TypeError", message |-> "Cannot read properties"])
  ELSE Returned(cleanObject(JObject([f \in ItemFields |-> GetProp(item, f)])))

\* items.map(...)
MapLineItems(items) ==
  IF \E i \in DOMAIN items : LineItem(items[i]).kind = "throw"
  THEN Thrown([name |-> "TypeError", message |-> "Cannot read properties"])
  ELSE Returned(JArray([i \in DOMAIN items |-> LineItem(items[i]).value]))

\* !Array.isArray(lineItems) && typeof lineItems === 'object': true of plain
\* objects and of null
IsTypeofObject(lineItems) == lineItems.t \in {"object", "null"}

parseLineItems(lineItems) ==
  IF IsTypeofObject(lineItems)
  THEN IF lineItems = JNull
       THEN Thrown([name |-> "TypeError", message |-> "Cannot read properties"])
       ELSE IF ~IsArray(GetProp(lineItems, "itemValues"))
            THEN Returned(JArray(<<>>))
            ELSE MapLineItems(GetProp(lineItems, "itemValues").items)
  ELSE IF ~IsArray(lineItems)
       THEN Returned(JArray(<<>>))
       ELSE MapLineItems(lineItems.items)

\* item objects: complete, with empty and foreign fields, empty
ItemObjects ==
  {JObject([productId |-> JNumber(1), sku |-> JString("SKU-001"),
            quantity |-> JNumber(2), unitPrice |-> JNumber(10), name |-> JString("Item 1")]),
   JObject([sku |-> JString(""), quantity |-> JNumber(0), name |-> JNull,
            color |-> JString("red")]),
   JObject(EmptyObject)}

\* arrays of up to two item objects
ItemArrays ==
  {<<>>} \cup {<<a>> : a \in ItemObjects} \cup {<<a, b>> : a, b \in ItemObjects}

\* what parseLineItems is applied to: both shapes, and absent or malformed input
LineItemInputs ==
  {JArray(s) : s \in ItemArrays}
    \cup {JObject([itemValues |-> JArray(s)]) : s \in ItemArrays}
    \cup {JObject(EmptyObject), JObject([itemValues |-> JString("not an array")]),
          JObject([item |-> JArray(<<>>)]),
          JUndefined, JNull, JString("sku"), JNumber(3), JBool(TRUE)}

InitLineItems ==
  /\ InitTransport
  /\ InitRest
  /\ \E x \in LineItemInputs : fx = [stage |-> "input", x |-> x]

ParseItems ==
  /\ fx.stage = "input"
  /\ fx' = [stage |-> "parsed", x |-> fx.x, result |-> parseLineItems(fx.x)]
  /\ UNCHANGED restVars

NextLineItems == ParseItems

SpecLineItems == InitLineItems /\ [][NextLineItems]_vars

(***************************************************************************)
(* Properties                                                              *)
(***************************************************************************)
CountType(requests, ty) ==
  Cardinality({i \in DOMAIN requests : requests[i].type = ty})

LastOf(seq) == seq[Len(seq)]

\* C1: one invocation of extensivApiRequest issues at most two data requests
\* and at most one refresh request; a second data request exists only after
\* the first was answered 401 and the refresh succeeded.
C1_RequestBudget ==
  /\ CountType(sent, "data") <= 2
  /\ CountType(sent, "refresh") <= 1
  /\ Len(sent) <= 3
  /\ CountType(sent, "data") = 2 =>
       /\ Len(resps) >= 2
       /\ resps[1].status = 401
       /\ sent[2].type = "refresh"
       /\ resps[2].status = 200

\* the retried request was answered 401 again and the invocation settled
\* without a third data request
C1_Witness ==
  /\ dpc = "done"
  /\ CountType(sent, "data") = 2
  /\ CountType(sent, "refresh") = 1
  /\ Len(resps) = 3
  /\ resps[3].status = 401

\* C2: 401, successful refresh, successful retry: the invocation returns the
\* body of the second answer as it is, one refresh request was made, and the
\* re-issued request equals the first one except for the Authorization header,
\* which carries the token the refresh returned.
C2_RefreshAndRetry ==
  (/\ dresult # NoResult
   /\ Len(resps) = 3
   /\ resps[1].status = 401
   /\ resps[2].status = 200
   /\ resps[3].status = 200)
  => /\ dresult = Returned(resps[3].body)
     /\ CountType(sent, "refresh") = 1
     /\ Len(sent) = 3
     /\ sent[1].type = "data"
     /\ sent[3].type = "data"
     /\ sent[3].req.headers.Authorization = Bearer(AccessTokenOf(resps[2].body))
     /\ sent[3].req.headers.Authorization # sent[1].req.headers.Authorization
     /\ sent[3].req =
          [sent[1].req EXCEPT !.headers.Authorization =
                                 Bearer(AccessTokenOf(resps[2].body))]

C2_Witness ==
  /\ dresult.kind = "return"
  /\ Len(resps) = 3
  /\ resps[1].status = 401
  /\ AccessTokenOf(resps[2].body) = "T2"
  /\ "qs" \in DOMAIN sent[1].req
  /\ dresult.value = resps[3].body

\* C3: after a 401 on the first request, a failed refresh or a failed retry
\* ends the invocation with the authentication error, and nothing more is
\* sent.
C3_AuthFailureIsTerminal ==
  (/\ dresult # NoResult
   /\ Len(resps) >= 2
   /\ resps[1].status = 401
   /\ LastOf(resps).status # 200)
  => /\ dresult.kind = "throw"
     /\ dresult.value.name = "NodeApiError"
     /\ dresult.value.message = AuthFailedMessage
     /\ Len(sent) = Len(resps)
     /\ CountType(sent, "refresh") = 1
     /\ CountType(sent, "data") <= 2
     /\ dpc \in {"done", "idle"}

\* the refresh succeeded and the retried request failed with a server error
C3_Witness ==
  /\ dresult.kind = "throw"
  /\ Len(resps) = 3
  /\ resps[1].status = 401
  /\ resps[3].status = 500
  /\ dresult.value.message = AuthFailedMessage

\* C4: the surfaced error is classified by the status of the answer that
\* caused it: the authentication error only if the refresh failed or the retry
\* was answered 401; a 400 or 500 answer to a data request (first or retried)
\* becomes the generic API error with the original status and message.
C4_ClassifiedByStatus ==
  dresult.kind = "throw" =>
    /\ dresult.value.message = AuthFailedMessage =>
         \/ LastOf(sent).type = "refresh"
         \/ (Len(resps) = 3 /\ LastOf(resps).status = 401)
    /\ (LastOf(sent).type = "data" /\ LastOf(resps).status \in {400, 500}) =>
         /\ dresult.value.message = "http error"
         /\ HasStatusCode(dresult.value.cause, LastOf(resps).status)

\* C5: a 429 answer to the first request ends the invocation with the
\* rate-limit error after that single network request: no refresh, no second
\* data request, no wait.
C5_RateLimitIsTerminal ==
  (Len(resps) >= 1 /\ resps[1].status = 429)
  => /\ Len(sent) = 1
     /\ Len(resps) = 1
     /\ sent[1].type = "data"
     /\ dpc \in {"done", "idle"}
     /\ dresult.kind = "throw"
     /\ dresult.value.message = RateLimitMessage
     /\ HasStatusCode(dresult.value.cause, 429)
     /\ op = "request" => wr.sleeps = <<>>

C5_Witness ==
  /\ op = "request"
  /\ outcome.kind = "throw"
  /\ Len(resps) = 1
  /\ resps[1].status = 429
  /\ outcome.value.message = RateLimitMessage

\* every Dispatcher call the running function made was answered 429
AllAnswered429 ==
  /\ Len(calls) >= 1
  /\ \A i \in DOMAIN calls : calls[i].statuses = <<429>>

\* C6: with the default maxRetries, a remote API answering 429 throughout
\* makes the wrapper call the Dispatcher five times and end with the last
\* rate-limit error; k < 5 answers of 429 followed by a success end with that
\* success after k + 1 Dispatcher calls.
C6_RetriesUpToMaxRetries ==
  (op = "retry" /\ outcome # NoResult /\ wr.maxRetries = DefaultMaxRetries) =>
    /\ AllAnswered429 =>
         /\ Len(calls) = DefaultMaxRetries
         /\ outcome.kind = "throw"
         /\ outcome.value.message = RateLimitMessage
    /\ outcome.kind = "return" =>
         /\ \A i \in 1..(Len(calls) - 1) : calls[i].statuses = <<429>>
         /\ LastOf(calls).kind = "return"
         /\ outcome = dresult

RECURSIVE Pow2(_)
Pow2(n) == IF n = 0 THEN 1 ELSE 2 * Pow2(n - 1)

\* min(1000 * 2^(n-1), 120000)
ExpectedDelay(n) ==
  IF 1000 * Pow2(n - 1) < 120000 THEN 1000 * Pow2(n - 1) ELSE 120000

\* C7: each 429 failure the wrapper sees is followed by a sleep, the n-th of
\* min(1000 * 2^(n-1), 120000) ms, so five consecutive 429s give the delays
\* 1000, 2000, 4000, 8000, 16000; the delays never decrease and never exceed
\* 120000.
C7_BackoffSequence ==
  /\ \A i \in DOMAIN wr.sleeps :
       /\ wr.sleeps[i] = ExpectedDelay(i)
       /\ wr.sleeps[i] <= 120000
       /\ i > 1 => wr.sleeps[i - 1] <= wr.sleeps[i]
  /\ (op = "retry" /\ outcome # NoResult /\ AllAnswered429) =>
       /\ Len(wr.sleeps) = Len(calls)
       /\ wr.maxRetries = DefaultMaxRetries =>
            wr.sleeps = <<1000, 2000, 4000, 8000, 16000>>

\* C8: a Dispatcher failure whose error does not carry statusCode 429 leaves
\* the wrapper at once with that same error: no sleep and no further
\* Dispatcher call, however many attempts remain.
C8_NonRetryablePropagates ==
  [][(/\ op = "retry"
      /\ dpc = "done"
      /\ outcome = NoResult
      /\ dresult.kind = "throw"
      /\ ~HasStatusCode(dresult.value, 429))
     => (/\ outcome' = Thrown(dresult.value)
         /\ wr'.sleeps = wr.sleeps
         /\ wr'.attempt = wr.attempt
         /\ calls' = calls
         /\ sent' = sent
         /\ dpc' = "idle")]_vars

\* the first of five attempts failed with a server error and the wrapper ended
C8_Witness ==
  /\ op = "retry"
  /\ wr.maxRetries = DefaultMaxRetries
  /\ outcome.kind = "throw"
  /\ Len(calls) = 1
  /\ calls[1].statuses = <<500>>
  /\ wr.attempt = 0
  /\ wr.sleeps = <<>>
  /\ outcome.value = dresult.value

\* C9: a request answered 500 is retried with backoff: it is never surfaced
\* after a single request without any wait.
C9_ServerErrorRetried ==
  ~(/\ outcome.kind = "throw"
    /\ Len(calls) = 1
    /\ calls[1].statuses = <<500>>
    /\ Len(sent) = 1
    /\ wr.sleeps = <<>>)

\* the pages of the finished run, in the order fetched
RECURSIVE ConcatPages(_)
ConcatPages(k) ==
  IF k = 0 THEN <<>> ELSE ConcatPages(k - 1) \o MockPage(k, calls[k].size)

\* the Pager returned and every call of the run brought a page
PagerReturnedPages ==
  /\ op = "allItems"
  /\ outcome.kind = "return"
  /\ \A i \in DOMAIN calls : calls[i].kind = "return" /\ calls[i].size >= 0

\* C10, as stated: the run ends with the first page of fewer than 100 items:
\* k calls with page = 1..k, every page before the k-th not short, the k-th
\* short, and the concatenation of the k pages returned.
C10_StopsAtFirstShortPage ==
  PagerReturnedPages =>
    /\ Len(calls) >= 1
    /\ \A i \in DOMAIN calls : calls[i].page = i
    /\ \A i \in 1..(Len(calls) - 1) : calls[i].size >= pageSize
    /\ LastOf(calls).size < pageSize
    /\ outcome.value = ConcatPages(Len(calls))

\* C10, amended: the run ends with the first page whose size is not exactly
\* 100 (shorter or longer): k calls with page = 1..k in order, and the
\* concatenation of the k pages in page order returned.
C10_StopsAtFirstNonFullPage ==
  PagerReturnedPages =>
    /\ Len(calls) >= 1
    /\ \A i \in DOMAIN calls : calls[i].page = i
    /\ \A i \in 1..(Len(calls) - 1) : calls[i].size = pageSize
    /\ LastOf(calls).size # pageSize
    /\ outcome.value = ConcatPages(Len(calls))
    /\ Len(outcome.value) = (Len(calls) - 1) * pageSize + LastOf(calls).size

\* pages of 100, 100 and 37 items: three calls, 237 items
C10_Witness ==
  /\ PagerReturnedPages
  /\ Len(calls) = 3
  /\ calls[3].size = 37
  /\ Len(outcome.value) = 237


\* the query the caller handed to the running function ({} when absent)
CallerQuery == IF args.query.some THEN args.query.val ELSE EmptyObject

\* number of Dispatcher calls the running function has started
CallsStarted ==
  IF dpc \in {"await1", "awaitRefresh", "await2"} THEN Len(calls) + 1 ELSE Len(calls)

\* C11: every Dispatcher call of one Pager run carries pageSize = 100 and the
\* 1-based page number of the call (1, 2, 3, ...), whatever page or pageSize
\* the caller's query held; the caller's other query keys, the method, the
\* endpoint and the body are the same on every call.
C11_PagerQuery ==
  (op = "allItems" /\ sent # <<>>) =>
    /\ \A i \in DOMAIN calls : calls[i].page = i
    /\ \A i \in DOMAIN sent :
         sent[i].type = "data" =>
           /\ "qs" \in DOMAIN sent[i].req
           /\ sent[i].req.qs.pageSize = 100
           /\ sent[i].req.qs.page = CallsStarted
           /\ DOMAIN sent[i].req.qs = {"page", "pageSize"} \cup DOMAIN CallerQuery
           /\ \A k \in DOMAIN CallerQuery \ {"page", "pageSize"} :
                sent[i].req.qs[k] = CallerQuery[k]
           /\ sent[i].req.method = args.method
           /\ sent[i].req.uri[3] = args.endpoint
           /\ ("body" \in DOMAIN sent[i].req)
                = (args.body.some /\ DOMAIN args.body.val # {})
           /\ "body" \in DOMAIN sent[i].req => sent[i].req.body = args.body.val

\* the third call of a run whose caller asked for page 7 with pageSize 25
C11_Witness ==
  /\ op = "allItems"
  /\ Len(calls) = 2
  /\ dpc = "await1"
  /\ args.query.some
  /\ "page" \in DOMAIN args.query.val
  /\ args.query.val.page = 7
  /\ sent[1].req.qs.page = 3
  /\ sent[1].req.qs.status = "open"


\* the value the extraction order selects from response r for the hint: the
\* property named by the hint, else the "data" property, else r itself
SelectedInOrder(r, hint) ==
  LET named == IF r.t = "object" /\ hint \in DOMAIN r.props
               THEN r.props[hint] ELSE JUndefined
      generic == IF r.t = "object" /\ "data" \in DOMAIN r.props
                 THEN r.props["data"] ELSE JUndefined
  IN IF Truthy(named) THEN named ELSE IF Truthy(generic) THEN generic ELSE r

\* C12: the Pager takes each page's items from the property named by
\* propertyName, else from "data", else from the whole response; when the
\* value so selected is no array it appends nothing, raises no error, stops
\* and returns what the earlier pages brought.
C12_ExtractionOrder ==
  [][(/\ op = "allItems"
      /\ dpc = "done"
      /\ outcome = NoResult
      /\ dresult.kind = "return")
     => LET sel == SelectedInOrder(dresult.value, pg.propertyName)
        IN IF sel.t = "array"
           THEN pg'.returnData = pg.returnData \o sel.items
           ELSE /\ pg'.returnData = pg.returnData
                /\ outcome' = Returned(pg.returnData)
                /\ sent' = sent
                /\ calls' = calls
                /\ dpc' = "idle"]_vars

\* the second page held a string under the hint and an array under "data":
\* the run ended with the 100 items of the first page
C12_Witness ==
  /\ op = "allItems"
  /\ pg.propertyName = "orders"
  /\ Len(calls) = 2
  /\ dresult = Returned(JObject([orders |-> JString("none"),
                                 data |-> JArray(MockPage(2, 37))]))
  /\ outcome = Returned(MockPage(1, pageSize))


\* the Pager run has ended, by a return or by a failure
PagerEnded == op = "allItems" /\ outcome # NoResult

\* the Dispatcher call the Pager awaited has settled and the loop body runs
PagerResumes == op = "allItems" /\ dpc = "done" /\ outcome = NoResult

\* C13, as stated: a Pager run that has ended had a last Dispatcher call that
\* failed or returned a short page (fewer than 100 items, or no array).
C13_EndsOnlyOnShortPage ==
  PagerEnded =>
    /\ Len(calls) >= 1
    /\ LastOf(calls).kind = "throw" \/ LastOf(calls).size < pageSize

\* C13, amended: a Pager run ends exactly when a Dispatcher call fails or
\* returns a page whose size is not exactly 100 (fewer items, more items, or
\* no array); after a page of exactly 100 items the run never ends but issues
\* the call for the next page number, and nothing caps the number of pages.
C13_EndsIffNotFullPage ==
  /\ [](PagerEnded =>
          /\ Len(calls) >= 1
          /\ LastOf(calls).kind = "throw" \/ LastOf(calls).size # pageSize
          /\ \A i \in 1..(Len(calls) - 1) :
               calls[i].kind = "return" /\ calls[i].size = pageSize)
  /\ [][PagerResumes =>
          IF LastOf(calls).kind = "return" /\ LastOf(calls).size = pageSize
          THEN /\ outcome' = NoResult
               /\ dpc' = "await1"
               /\ RequestedPage(sent'[1].req) = LastOf(calls).page + 1
          ELSE /\ outcome' # NoResult
               /\ sent' = sent
               /\ calls' = calls]_vars

\* every page so far held exactly 100 items: after MaxPages calls the run has
\* not ended
C13_Witness ==
  /\ PagerResumes
  /\ Len(calls) = MaxPages
  /\ \A i \in DOMAIN calls : calls[i].kind = "return" /\ calls[i].size = pageSize
  /\ Len(pg.returnData) = (MaxPages - 1) * pageSize


\* the environment the host of a request belongs to
EnvironmentOfHost(host) ==
  IF host \in {"https://api.skubana.com", "https://app.skubana.com"}
  THEN "production"
  ELSE IF host \in {"https://api.demo.skubana.com", "https://demo.skubana.com"}
       THEN "demo"
       ELSE "unknown"

\* C14: every data request goes to the production API host when the
\* credential's environment is "production" and to the demo API host for any
\* other string; every refresh request makes the same split for the OAuth
\* application host; so the requests of one Dispatcher invocation all target
\* one environment.
C14_BaseUrlSelection ==
  /\ \A i \in DOMAIN sent :
       /\ sent[i].type = "data" =>
            sent[i].req.uri[1] = IF credentials.environment = "production"
                                 THEN "https://api.skubana.com"
                                 ELSE "https://api.demo.skubana.com"
       /\ sent[i].type = "refresh" =>
            sent[i].req.uri[1] = IF credentials.environment = "production"
                                 THEN "https://app.skubana.com"
                                 ELSE "https://demo.skubana.com"
  /\ \A i, j \in DOMAIN sent :
       EnvironmentOfHost(sent[i].req.uri[1]) = EnvironmentOfHost(sent[j].req.uri[1])
  /\ \A i \in DOMAIN sent : EnvironmentOfHost(sent[i].req.uri[1]) # "unknown"

\* an unrecognized environment: data request, refresh request and re-issued
\* data request all went to the demo hosts
C14_Witness ==
  /\ credentials.environment = "staging"
  /\ Len(sent) = 3
  /\ sent[2].type = "refresh"
  /\ sent[1].req.uri[1] = "https://api.demo.skubana.com"
  /\ sent[2].req.uri[1] = "https://demo.skubana.com"


\* the optional argument was supplied and has at least one key
HasKeys(arg) == arg.some /\ \E k \in DOMAIN arg.val : TRUE

\* C15: a data request sent by extensivApiRequest has a body exactly when the
\* caller's body is present with at least one key, and query parameters
\* exactly when the caller's query is present with at least one key; what is
\* sent is what the caller gave; this holds for the first request and for the
\* one re-issued after a refresh.
C15_BodyAndQueryOnlyIfNonEmpty ==
  op \in {"request", "retry"} =>
    \A i \in DOMAIN sent :
      sent[i].type = "data" =>
        /\ ("body" \in DOMAIN sent[i].req) = HasKeys(args.body)
        /\ ("qs" \in DOMAIN sent[i].req) = HasKeys(args.query)
        /\ "body" \in DOMAIN sent[i].req => sent[i].req.body = args.body.val
        /\ "qs" \in DOMAIN sent[i].req => sent[i].req.qs = args.query.val

\* a call with a body of one key and an empty query, re-issued after a refresh:
\* both requests carry the body and neither carries query parameters
C15_Witness ==
  /\ op = "request"
  /\ args.body = Some([sku |-> "A1"])
  /\ args.query = Some(EmptyObject)
  /\ Len(sent) = 3
  /\ sent[3].type = "data"
  /\ "body" \in DOMAIN sent[3].req
  /\ "qs" \notin DOMAIN sent[3].req
  /\ "qs" \notin DOMAIN sent[1].req


\* some property of obj, at any depth of nested plain objects, is "", null or
\* undefined
RECURSIVE HoldsEmptyValue(_)
HoldsEmptyValue(obj) ==
  \E k \in DOMAIN obj.props :
    \/ obj.props[k] \in {JString(""), JNull, JUndefined}
    \/ obj.props[k].t = "object" /\ HoldsEmptyValue(obj.props[k])

\* C16: cleaning a cleaned object changes nothing; every top-level key whose
\* value is 0 or false is in the result with that value; no key whose value is
\* "", null or undefined is in the result, at the top or in a nested object.
C16_CleanObject ==
  /\ fx.stage \in {"once", "twice"} =>
       /\ \A k \in DOMAIN fx.x.props :
            /\ fx.x.props[k] \in {JNumber(0), JBool(FALSE)} =>
                 k \in DOMAIN fx.once.props /\ fx.once.props[k] = fx.x.props[k]
            /\ fx.x.props[k] \in {JString(""), JNull, JUndefined} =>
                 k \notin DOMAIN fx.once.props
       /\ DOMAIN fx.once.props \subseteq DOMAIN fx.x.props
       /\ ~HoldsEmptyValue(fx.once)
  /\ fx.stage = "twice" => fx.twice = fx.once

\* {a: 0, b: {n: {n: null}}} was cleaned to {a: 0}, and cleaning again gave
\* {a: 0}
C16_Witness ==
  /\ fx.stage = "twice"
  /\ fx.x = JObject([a |-> JNumber(0), b |-> JObject([n |-> JObject([n |-> JNull])])])
  /\ fx.once = JObject([a |-> JNumber(0)])
  /\ fx.twice = JObject([a |-> JNumber(0)])


\* the refresh request of the running Dispatcher invocation was answered
RefreshAnswered ==
  /\ Len(sent) >= 2
  /\ sent[2].type = "refresh"
  /\ Len(resps) >= 2

\* C17: one invocation of the Token Refresher sends one POST to /oauth/token
\* of the application host and no other request; when that request fails, by
\* an HTTP status or without one, the Refresher throws its authentication
\* error wrapping the failure and no further request follows; when it
\* succeeds, the access_token of the response is the token returned, which
\* the re-issued request carries.
C17_RefreshOnceNoRetry ==
  /\ CountType(sent, "refresh") <= 1
  /\ \A i \in DOMAIN sent :
       sent[i].type = "refresh" =>
         /\ i = 2
         /\ sent[i].req.method = "POST"
         /\ sent[i].req.uri = <<getAppBaseUrl(credentials.environment), "/oauth/token">>
         /\ sent[i].req.form = [grant_type |-> "refresh_token",
                                refresh_token |-> credentials.refreshToken]
  /\ (RefreshAnswered /\ resps[2].status # 200) =>
       /\ Len(sent) = 2
       /\ dpc \in {"done", "idle"}
       /\ dresult.kind = "throw"
       /\ {"name", "cause"} \subseteq DOMAIN dresult.value.cause
       /\ dresult.value.cause.name = "NodeApiError"
       /\ dresult.value.cause.message = "Failed to refresh access token"
       /\ resps[2].status # 0 => dresult.value.cause.cause.statusCode = resps[2].status
       /\ resps[2].status = 0 => "statusCode" \notin DOMAIN dresult.value.cause.cause
  /\ (RefreshAnswered /\ resps[2].status = 200) =>
       /\ Len(sent) = 3
       /\ sent[3].type = "data"
       /\ "access_token" \in DOMAIN resps[2].body =>
            sent[3].req.headers.Authorization = <<"Bearer", resps[2].body.access_token>>

\* the refresh request failed without an HTTP status: two requests were sent
\* and the invocation ended with the Refresher's error inside
C17_Witness ==
  /\ RefreshAnswered
  /\ resps[2].status = 0
  /\ Len(sent) = 2
  /\ dresult.kind = "throw"
  /\ dresult.value.cause.message = RefreshFailedMessage


\* C18: no step of a transport operation changes the credential bundle: the
\* stored accessToken, refreshToken, clientId, clientSecret and environment
\* stay what they were, also across a refresh; every invocation starts with
\* the stored access token, and a data request carrying another token is the
\* single request re-issued after the refresh of its invocation.
C18_CredentialsUntouched ==
  /\ [][credentials' = credentials]_vars
  /\ [](/\ credentials.accessToken = "T1"
        /\ credentials.refreshToken = "R1"
        /\ credentials.clientId = "id"
        /\ credentials.clientSecret = "secret"
        /\ sent # <<>> =>
             sent[1].req.headers.Authorization = <<"Bearer", credentials.accessToken>>
        /\ \A i \in DOMAIN sent :
             (/\ sent[i].type = "data"
              /\ sent[i].req.headers.Authorization # <<"Bearer", credentials.accessToken>>)
               => /\ i = 3
                  /\ Len(sent) = 3
                  /\ sent[2].type = "refresh")

\* the first page of a Pager run was fetched with a refreshed token; the call
\* for the second page carries the stored token again
C18_Witness ==
  /\ op = "allItems"
  /\ Len(calls) = 1
  /\ calls[1].statuses = <<401, 200, 200>>
  /\ dpc = "await1"
  /\ sent[1].req.qs.page = 2
  /\ sent[1].req.headers.Authorization = <<"Bearer", "T1">>
  /\ credentials.accessToken = "T1"


\* C19: a poll captures the time of its start and queries from the stored
\* lastPollTime (one hour before the start when none is stored); however the
\* poll ends, with items, with none or with a failure, lastPollTime is then
\* the time captured at its start; so the next poll's modifiedAfter is the
\* start time of the poll before it, failed or not.
C19_LastPollTimeAlwaysAdvances ==
  /\ [][(op = "none" /\ op' = "poll") =>
          /\ tr'.now = <<"iso", clock>>
          /\ sent'[1].req.qs.modifiedAfter =
               IF pollData = EmptyObject THEN <<"iso", clock - 3600000>>
               ELSE pollData.lastPollTime
          /\ tr.previous # "none" => sent'[1].req.qs.modifiedAfter = tr.now]_vars
  /\ [][(op = "poll" /\ outcome = NoResult /\ outcome' # NoResult) =>
          /\ "lastPollTime" \in DOMAIN pollData'
          /\ pollData'.lastPollTime = tr.now
          /\ tr'.now = tr.now
          /\ tr'.previous \in {"items", "empty", "failed"}]_vars
  /\ [](op = "poll" =>
          \A i \in DOMAIN sent :
            sent[i].type = "data" => sent[i].req.qs.modifiedAfter = tr.lastPollTime)
  /\ []((tr.previous # "none" /\ (op = "none" \/ outcome # NoResult)) =>
          pollData = [lastPollTime |-> tr.now])

\* a poll started one tick into the run and failed; the poll started a tick
\* later asks for what changed since the start of the failed one
C19_Witness ==
  /\ op = "poll"
  /\ dpc = "await1"
  /\ tr.previous = "failed"
  /\ clock = OneHour + 2
  /\ tr.now = toISOString(OneHour + 2)
  /\ pollData = [lastPollTime |-> toISOString(OneHour + 1)]
  /\ sent[1].req.qs.modifiedAfter = toISOString(OneHour + 1)


\* the required parameters of the create operation
OrderRequiredFields == <<"orderNumber", "channelId">>

\* C20: when a required field of the caller's input is undefined, null or
\* the empty string, the operation ends with the validation error of
\* validateRequiredFields, which names the missing fields in the order
\* listed, and no request has been sent.
C20_ValidationBeforeNetwork ==
  (/\ op = "executeOrder"
   /\ \E i \in DOMAIN OrderRequiredFields :
        IsMissing(args.params, OrderRequiredFields[i]))
    => /\ sent = <<>>
       /\ outcome = validateRequiredFields(args.params, OrderRequiredFields)
       /\ outcome.kind = "throw"


\* the keys of the input whose value is not undefined, null or ""
NonEmptyKeys(x) == {k \in DOMAIN x : x[k] \notin {JUndefined, JNull, JString("")}}

\* the query holds exactly the non-empty keys of x; an array under a key that
\* is no date key is joined with commas, any other value under such a key is
\* unchanged
MapsNonEmptyKeys(x, query) ==
  /\ DOMAIN query = NonEmptyKeys(x)
  /\ \A k \in NonEmptyKeys(x) \ {"dateFrom", "dateTo", "modifiedAfter"} :
       /\ x[k].t # "array" => query[k] = x[k]
       /\ x[k] = JArray(<<JString("1"), JString("2"), JString("3")>>)
            => query[k] = JCsv(<<"1", "2", "3">>)
       /\ x[k] = JArray(<<JNumber(7)>>) => query[k] = JString("7")
       /\ x[k] = JArray(<<>>) => query[k] = JString("")

\* C21, as stated: for every input the function returns a query that holds
\* exactly the keys whose value is not undefined, null or "", arrays joined
\* with commas and other values that are no dates unchanged.
C21_EveryNonEmptyKeyMapped ==
  fx.stage = "built" =>
    /\ fx.result.kind = "return"
    /\ MapsNonEmptyKeys(fx.x, fx.result.value)

\* a non-empty value under a date key that is no date string new Date() parses
UnparseableDate(x) ==
  \E k \in NonEmptyKeys(x) \cap {"dateFrom", "dateTo", "modifiedAfter"} :
    ~(x[k].t = "string" /\ x[k].str \in {"2024-01-15", "2024-01-15T00:00:00.000Z"})

\* C21, amended: when every non-empty value under a date key is a date string
\* that parses, the function returns a query that holds exactly the keys whose
\* value is not undefined, null or "", dates as ISO timestamps, arrays joined
\* with commas, other values (0 and false among them) unchanged; when some
\* non-empty value under a date key does not parse, the function throws.
C21_NonEmptyKeysMappedOrThrows ==
  fx.stage = "built" =>
    IF UnparseableDate(fx.x)
    THEN fx.result.kind = "throw"
    ELSE /\ fx.result.kind = "return"
         /\ MapsNonEmptyKeys(fx.x, fx.result.value)
         /\ \A k \in NonEmptyKeys(fx.x) \cap {"dateFrom", "dateTo", "modifiedAfter"} :
              fx.result.value[k] = JString("2024-01-15T00:00:00.000Z")

\* {status: 0, ids: ["1","2","3"], dateFrom: "2024-01-15"} became
\* {status: 0, ids: "1,2,3", dateFrom: "2024-01-15T00:00:00.000Z"}
C21_Witness ==
  /\ fx.stage = "built"
  /\ fx.x = [status |-> JNumber(0),
             ids |-> JArray(<<JString("1"), JString("2"), JString("3")>>),
             dateFrom |-> JString("2024-01-15")]
  /\ fx.result = Returned([status |-> JNumber(0), ids |-> JCsv(<<"1", "2", "3">>),
                           dateFrom |-> JString("2024-01-15T00:00:00.000Z")])


\* the output for one item: its non-empty fields among the five
NonEmptyItemFields(item) ==
  JObject([f \in {g \in {"productId", "sku", "quantity", "unitPrice", "name"} :
                    /\ g \in DOMAIN item.props
                    /\ item.props[g] \notin {JUndefined, JNull, JString("")}}
             |-> item.props[f]])

\* the array of items the input holds, in either shape; <<>> for any other input
ItemsOfInput(x) ==
  IF x.t = "array" THEN x.items
  ELSE IF x.t = "object" /\ "itemValues" \in DOMAIN x.props
          /\ x.props["itemValues"].t = "array"
       THEN x.props["itemValues"].items
       ELSE <<>>

\* C22: for an array of item objects, bare or wrapped under itemValues,
\* parseLineItems returns one output per item, in order, holding exactly the
\* item's non-empty fields among productId, sku, quantity, unitPrice, name; for
\* any other input (no itemValues, non-array itemValues, a value that is
\* neither an array nor an object) it returns the empty array; it never throws.
C22_LineItemsTolerant ==
  fx.stage = "parsed" =>
    /\ fx.result.kind = "return"
    /\ fx.result.value =
         JArray([i \in DOMAIN ItemsOfInput(fx.x) |->
                   NonEmptyItemFields(ItemsOfInput(fx.x)[i])])


\* a value that leaves something behind: not "", null or undefined, and, for a
\* plain object, with a property that leaves something behind
RECURSIVE HasContent(_)
HasContent(v) ==
  /\ v \notin {JString(""), JNull, JUndefined}
  /\ v.t = "object" => \E k \in DOMAIN v.props : HasContent(v.props[k])

\* result is obj with, at every depth of nested plain objects, exactly the
\* keys that leave something behind; values that are no plain objects, arrays
\* among them, are the same as in obj
RECURSIVE IsCleanedFormOf(_, _)
IsCleanedFormOf(result, obj) ==
  /\ result.t = "object"
  /\ DOMAIN result.props = {k \in DOMAIN obj.props : HasContent(obj.props[k])}
  /\ \A k \in DOMAIN result.props :
       IF obj.props[k].t = "object"
       THEN /\ IsCleanedFormOf(result.props[k], obj.props[k])
            /\ DOMAIN result.props[k].props # {}
       ELSE result.props[k] = obj.props[k]

\* C23: cleanObject replaces a nested plain object by its cleaned form and drops
\* its key when that form has no keys; an array is kept as it is, empty or
\* holding empty values; no nested plain object of the result, at any depth,
\* is empty or holds "", null or undefined.
C23_CleanObjectNested ==
  fx.stage \in {"once", "twice"} =>
    /\ IsCleanedFormOf(fx.once, fx.x)
    /\ \A k \in DOMAIN fx.x.props :
         fx.x.props[k].t = "array" =>
           k \in DOMAIN fx.once.props /\ fx.once.props[k] = fx.x.props[k]
    /\ \A k \in DOMAIN fx.x.props :
         fx.x.props[k] \in {JObject(EmptyObject), JObject([n |-> JNull]),
                            JObject([n |-> JObject(EmptyObject)]),
                            JObject([n |-> JObject([n |-> JNull])])}
           => k \notin DOMAIN fx.once.props

\* {a: [""], b: {n: {}}} was cleaned to {a: [""]}
C23_Witness ==
  /\ fx.stage = "once"
  /\ fx.x = JObject([a |-> JArray(<<JString("")>>),
                     b |-> JObject([n |-> JObject(EmptyObject)])])
  /\ fx.once = JObject([a |-> JArray(<<JString("")>>)])


(***************************************************************************)
(* The execute loop                                                        *)
(***************************************************************************)
\* the loop's trace: item 0 starts and ends, then item 1 starts and ends, ...
InIndexOrder(log) ==
  \A k \in DOMAIN log :
    /\ log[k].item = (k - 1) \div 2
    /\ log[k].event = IF k % 2 = 1 THEN "start" ELSE "end"

\* the action call of the current item settles with an error
ItemFails == ex.pc = "await" /\ ex'.pc # "await" /\ outcome.kind = "throw"

\* C24: execute handles its items one at a time in index order, item i + 1
\* starting only after the action call of item i has settled, requests being
\* issued only inside an item's call.  When an item fails under continueOnFail,
\* exactly one {error: message} output is appended and the loop goes on to the
\* next item, so that every item is handled; without continueOnFail the first
\* failure ends the loop: execute throws that error, no later item starts and
\* no output is returned.
C24_ExecuteLoop ==
  /\ [](InIndexOrder(ex.log) /\ (sent # <<>> => ex.pc = "await"))
  /\ [](ex.pc = "done" /\ ex.continueOnFail =>
          ex.result.kind = "return" /\ Len(ex.log) = 2 * ex.n)
  /\ [](ex.pc = "done" /\ ex.result.kind = "throw" =>
          /\ ex.log[Len(ex.log)].failed
          /\ \A k \in 1..(Len(ex.log) - 1) : ~ex.log[k].failed)
  /\ [](\A k \in DOMAIN ex.log :
          ex.log[k].failed /\ ~ex.continueOnFail =>
            k = Len(ex.log) /\ ex.pc = "done" /\ ex.result.kind = "throw")
  /\ [][ItemFails =>
          IF ex.continueOnFail
          THEN /\ ex'.pc = "loop"
               /\ ex'.i = ex.i + 1
               /\ Len(ex'.returnData) = Len(ex.returnData) + 1
               /\ SubSeq(ex'.returnData, 1, Len(ex.returnData)) = ex.returnData
               /\ ex'.returnData[Len(ex'.returnData)] =
                    [json |-> JObject([error |-> JString(outcome.value.message)])]
          ELSE /\ ex'.pc = "done"
               /\ ex'.result = Thrown(outcome.value)
               /\ sent' = <<>>]_vars

\* execute has returned after its first item failed under continueOnFail and
\* its second item was handled
C24_Witness ==
  /\ ex.pc = "done"
  /\ ex.continueOnFail
  /\ ex.n = 2
  /\ Len(ex.log) = 4
  /\ ex.log[2].failed
  /\ ex.log[2].requests > 0
  /\ ~ex.log[4].failed
  /\ ex.result.kind = "return"


\* the action call of the current item has settled and the loop body goes on
ItemSettles == ex.pc = "await" /\ ex'.pc # "await"

\* C30: for a resource the switch does not list the item fails with the
\* "not supported" NodeOperationError and no request has been sent; for the
\* order resource with an operation no branch of executeOrder matches, no
\* request is sent, nothing is thrown and the item yields the single output
\* {json: {}}.
C30_UnsupportedResourceAndOperation ==
  /\ []((ex.resource \notin SupportedResources
           \/ (ex.resource = "order" /\ ex.operation \notin OrderOperations))
          => sent = <<>> /\ dpc = "idle")
  /\ [][ItemSettles /\ ex.resource \notin SupportedResources =>
          /\ outcome = Thrown(UnsupportedResourceError(ex.resource))
          /\ IF ex.continueOnFail
             THEN ex'.returnData = ex.returnData \o
                    <<[json |-> JObject([error |->
                         JString(UnsupportedResourceError(ex.resource).message)])]>>
             ELSE ex'.result = Thrown(UnsupportedResourceError(ex.resource))]_vars
  /\ [][ItemSettles /\ ex.resource = "order" /\ ex.operation \notin OrderOperations =>
          /\ outcome.kind = "return"
          /\ ex'.pc = "loop"
          /\ ex'.returnData = ex.returnData \o <<[json |-> JObject(EmptyObject)]>>]_vars

\* execute has returned two empty objects for two items of an order
\* operation that executeOrder does not know
C30_Witness ==
  /\ ex.pc = "done"
  /\ ex.resource = "order"
  /\ ex.operation \notin OrderOperations
  /\ ex.n = 2
  /\ ex.result.kind = "return"
  /\ Len(ex.returnData) = 2
  /\ ex.log[2].requests = 0
  /\ ex.log[4].requests = 0


(***************************************************************************)
(* The licensing notice                                                    *)
(***************************************************************************)
\* console.warn calls of the three logLicensingNotice functions together
NoticesEmitted == notices + triggerNotices + nodeNotices

\* C25: the licensing notice is governed by one flag for the process, false
\* at start, set on first use and never reset: over any sequence of
\* transport, execute and poll calls the notice is emitted exactly once, on
\* the first of them.
C25_NoticeExactlyOnce ==
  /\ [](NoticesEmitted <= 1)
  /\ [](licensingNoticeLogged \/ triggerNoticeLogged \/ nodeNoticeLogged
          => NoticesEmitted = 1)
  /\ [][/\ licensingNoticeLogged => licensingNoticeLogged'
        /\ triggerNoticeLogged => triggerNoticeLogged'
        /\ nodeNoticeLogged => nodeNoticeLogged']_vars


(***************************************************************************)
(* No token carried over between invocations                               *)
(***************************************************************************)
\* an invocation of extensivApiRequest sends its first request
InvocationStarts == dpc # "await1" /\ dpc' = "await1"

\* invocations of the current run that called the token endpoint
RefreshingCalls == {k \in DOMAIN calls : Len(calls[k].statuses) >= 2}

\* invocations of the current run whose request with the stored token got a 401
ExpiredCalls == {k \in DOMAIN calls : calls[k].statuses[1] = 401}

\* C26: the first data request of every invocation of extensivApiRequest
\* carries the accessToken the host stores ("T1"), also right after an
\* invocation of the same run that refreshed it; an invocation calls the
\* token endpoint exactly when that first request is answered 401, and at
\* most once.  So when every page of a Pager run (or every attempt of the
\* retry wrapper) meets an expired stored token, the run makes as many
\* refresh calls as it fetches pages.
C26_NoTokenCarryOver ==
  /\ [][InvocationStarts =>
          /\ Len(sent') = 1
          /\ sent'[1].type = "data"
          /\ sent'[1].req.headers.Authorization = Bearer("T1")]_vars
  /\ [](RefreshingCalls = ExpiredCalls)
  /\ [](\A k \in DOMAIN calls : Len(calls[k].statuses) <= 3)
  /\ [](Cardinality({i \in DOMAIN sent : sent[i].type = "refresh"}) <= 1)
  /\ [](op \in {"allItems", "retry"} /\ ExpiredCalls = DOMAIN calls
          => Cardinality(RefreshingCalls) = Len(calls))

\* a Pager run has fetched two pages, each after its own 401 and refresh, and
\* asks for the third with the stored token
C26_Witness ==
  /\ op = "allItems"
  /\ Len(calls) = 2
  /\ calls[1].statuses = <<401, 200, 200>>
  /\ calls[2].statuses = <<401, 200, 200>>
  /\ calls[2].page = 2
  /\ Cardinality(RefreshingCalls) = 2
  /\ dpc = "await1"
  /\ sent[1].req.headers.Authorization = Bearer("T1")


(***************************************************************************)
(* A failed page                                                           *)
(***************************************************************************)
\* the Pager takes the failure of its Dispatcher call
PagerTakesFailure ==
  /\ op = "allItems"
  /\ dpc = "done"
  /\ dresult.kind = "throw"
  /\ outcome = NoResult
  /\ outcome' # NoResult

\* C27: when a Dispatcher call of a Pager run fails, the Pager fails with
\* that very error in its next step and sends no further request; the failed
\* call is the last call of the run, and the items of the pages fetched
\* before it are not returned.
C27_NoPartialResult ==
  /\ [][PagerTakesFailure =>
          /\ outcome' = Thrown(dresult.value)
          /\ sent' = sent
          /\ calls' = calls
          /\ dpc' = "idle"]_vars
  /\ [](op = "allItems" =>
          \A k \in DOMAIN calls :
            calls[k].kind = "throw" =>
              /\ k = Len(calls)
              /\ dpc \in {"done", "idle"}
              /\ outcome.kind # "return"
              /\ outcome # NoResult => outcome = Thrown(dresult.value))
  /\ [](op = "allItems" /\ outcome.kind = "return" =>
          \A k \in DOMAIN calls : calls[k].kind = "return")

\* a Pager run has failed on its second page, after a full first page
C27_Witness ==
  /\ op = "allItems"
  /\ Len(calls) = 2
  /\ calls[1].kind = "return"
  /\ calls[1].size = pageSize
  /\ calls[2].kind = "throw"
  /\ Len(pg.returnData) = pageSize
  /\ outcome.kind = "throw"


(***************************************************************************)
(* The webhook lifecycle                                                   *)
(***************************************************************************)
\* a webhook method takes the settled Dispatcher call
WebhookSettles(method) ==
  /\ op = "webhook"
  /\ wh.method = method
  /\ dpc = "done"
  /\ outcome = NoResult
  /\ outcome' # NoResult

\* C28: delete with no stored webhookId returns true and sends nothing; a
\* delete whose request succeeds drops the stored webhookId and returns true;
\* one whose request fails returns false and leaves the static data as it
\* was; create stores response.webhookId || response.id and returns true
\* when its POST succeeds, and returns false with the static data as it was
\* when it fails.  So whenever a webhookId is stored, the last remote
\* operation that succeeded was a create.
C28_WebhookLifecycle ==
  /\ []("webhookId" \in DOMAIN pollData => wh.lastOk = "create")
  /\ [][/\ wh.method = "none"
        /\ wh'.method = "delete"
        /\ "webhookId" \notin DOMAIN pollData
        => /\ outcome' = Returned(JBool(TRUE))
           /\ sent' = <<>>
           /\ dpc' = "idle"
           /\ pollData' = pollData]_vars
  /\ [][WebhookSettles("delete") =>
          IF dresult.kind = "return"
          THEN /\ outcome' = Returned(JBool(TRUE))
               /\ "webhookId" \notin DOMAIN pollData'
          ELSE /\ outcome' = Returned(JBool(FALSE))
               /\ pollData' = pollData]_vars
  /\ [][WebhookSettles("create") =>
          IF dresult.kind = "return"
          THEN /\ outcome' = Returned(JBool(TRUE))
               /\ "webhookId" \in DOMAIN pollData'
               /\ pollData'.webhookId = ResponseWebhookId(dresult.value)
          ELSE /\ outcome' = Returned(JBool(FALSE))
               /\ pollData' = pollData]_vars
  /\ [][pollData' # pollData => dpc = "done" /\ dresult.kind = "return"]_vars

\* a create has stored "wh-1" and a later delete has failed: the id is still
\* stored and delete has returned false
C28_Witness ==
  /\ wh.method = "delete"
  /\ wh.lastOk = "create"
  /\ outcome = Returned(JBool(FALSE))
  /\ dresult.kind = "throw"
  /\ "webhookId" \in DOMAIN pollData
  /\ pollData.webhookId = JString("wh-1")


(***************************************************************************)
(* One request per poll                                                    *)
(***************************************************************************)
\* poll takes the settled Dispatcher call
PollSettles == op = "poll" /\ dpc = "done" /\ outcome = NoResult /\ outcome' # NoResult

\* the response holds a non-empty array, itself or under "data"
HoldsItems(body) ==
  \/ body.t = "array" /\ Len(body.items) > 0
  \/ /\ body.t = "object"
     /\ "data" \in DOMAIN body.props
     /\ body.props.data.t = "array"
     /\ Len(body.props.data.items) > 0

\* C29: a poll makes one Dispatcher call and no other: a GET with pageSize
\* 100, no page parameter and modifiedAfter = the stored lastPollTime, or one
\* hour before now when none is stored; when the call has settled the poll
\* returns without a further request.  It returns the items when the
\* response holds a non-empty array and null in every other case: an empty
\* array, no array, or a failure of the call, which poll never passes on.
C29_OneRequestPerPoll ==
  /\ [](op = "poll" =>
          /\ Len(calls) <= 1
          /\ sent # <<>>
          /\ \A i \in DOMAIN sent :
               sent[i].type = "data" =>
                 /\ sent[i].req.method = "GET"
                 /\ sent[i].req.qs.pageSize = 100
                 /\ "page" \notin DOMAIN sent[i].req.qs
                 /\ sent[i].req.qs.modifiedAfter = tr.lastPollTime)
  /\ [][op = "none" /\ op' = "poll" =>
          /\ Len(sent') = 1
          /\ sent'[1].req.qs.modifiedAfter =
               IF "lastPollTime" \in DOMAIN pollData THEN pollData.lastPollTime
               ELSE toISOString(clock - 3600000)]_vars
  /\ [][PollSettles =>
          /\ Len(calls) = 1
          /\ calls' = calls
          /\ sent' = sent
          /\ dpc' = "idle"
          /\ outcome'.kind = "return"
          /\ IF dresult.kind = "return" /\ HoldsItems(dresult.value)
             THEN /\ outcome'.value.t = "array"
                  /\ outcome'.value.items =
                       IF dresult.value.t = "array" THEN dresult.value.items
                       ELSE dresult.value.props.data.items
             ELSE outcome'.value = JNull]_vars

\* a second poll, asking from the time the first one stored, has got 37
\* items under "data" and returns them
C29_Witness ==
  /\ op = "poll"
  /\ tr.previous # "none"
  /\ Len(calls) = 1
  /\ dresult.kind = "return"
  /\ dresult.value.t = "object"
  /\ outcome.kind = "return"
  /\ outcome.value.t = "array"
  /\ Len(outcome.value.items) = 37
  /\ sent[1].req.qs.modifiedAfter = tr.lastPollTime

====
